---- MODULE Spec2Model ----
(***************************************************************************)
(* Credit-report compliance scan: the rule evaluator                       *)
(* (compliance-resource-validator.ts, crc-knowledge-integration.ts) and    *)
(* the scan orchestrator with its POST /api/ai-scan route (routes module,  *)
(* src/unnamed/part_001).                                                  *)
(*                                                                         *)
(* A credit item is a function from field names to strings; an absent      *)
(* field and an empty string are both falsy in every place the code reads  *)
(* a field, so both are the empty string here.  The lengths of the JSON    *)
(* texts the code measures are carried beside the fields (jsonLen,         *)
(* summaryLen): the token arithmetic is done on them as the code does it.  *)
(***************************************************************************)
EXTENDS Integers, Sequences, FiniteSets, TLC

(***************************************************************************)
(* Program constants                                                       *)
(***************************************************************************)
MAX_INPUT_TOKENS == 100000
TOKENS_PER_ACCOUNT_LIMIT == 1000
MAX_CONCURRENT_REQUESTS == 5
NO_VIOLATION_MESSAGE == "No Metro 2 / FCRA / FDCPA violation detected for this item."

(***************************************************************************)
(* Bounds of the model                                                     *)
(***************************************************************************)
\* longest CREDIT_LIABILITY / PUBLIC_RECORD / INQUIRY list of a mixed payload
MaxAccounts == 1
MaxRecords == 1
MaxInquiries == 1
\* longest payload of plain accounts (the batching scenarios)
MaxItems == 12
\* external calls of one scan that may end otherwise than with the usual reply
MaxFaults == 1
\* most fields of an item handed to the evaluator directly
MaxFields == 3
\* longest list handed to a normalizer directly
MaxLen == 3

(***************************************************************************)
(* JavaScript values and string functions                                  *)
(***************************************************************************)
Get(o, k) == IF k \in DOMAIN o THEN o[k] ELSE ""

Truthy(s) == s # ""

OrElse(a, b) == IF Truthy(a) THEN a ELSE b

StartsWith(s, p) == Len(s) >= Len(p) /\ SubSeq(s, 1, Len(p)) = p

Includes(s, sub) ==
    \E ix \in 1..(Len(s) - Len(sub) + 1) : SubSeq(s, ix, ix + Len(sub) - 1) = sub

RECURSIVE TrimStart(_)
TrimStart(s) ==
    IF Len(s) > 0 /\ SubSeq(s, 1, 1) = " " THEN TrimStart(SubSeq(s, 2, Len(s))) ELSE s

RECURSIVE TrimEnd(_)
TrimEnd(s) ==
    IF Len(s) > 0 /\ SubSeq(s, Len(s), Len(s)) = " "
    THEN TrimEnd(SubSeq(s, 1, Len(s) - 1)) ELSE s

Trim(s) == TrimEnd(TrimStart(s))

UpperLetters == <<"A", "B", "C", "D", "E", "F", "G", "H", "I", "J", "K", "L", "M",
                  "N", "O", "P", "Q", "R", "S", "T", "U", "V", "W", "X", "Y", "Z">>

LowerLetters == <<"a", "b", "c", "d", "e", "f", "g", "h", "i", "j", "k", "l", "m",
                  "n", "o", "p", "q", "r", "s", "t", "u", "v", "w", "x", "y", "z">>

LowerChar(c) ==
    IF \E k \in 1..26 : UpperLetters[k] = c
    THEN LowerLetters[CHOOSE k \in 1..26 : UpperLetters[k] = c] ELSE c

RECURSIVE ToLowerCase(_)
ToLowerCase(s) ==
    IF Len(s) = 0 THEN s
    ELSE IF Len(s) = 1 THEN LowerChar(s)
    ELSE LET half == Len(s) \div 2
         IN  ToLowerCase(SubSeq(s, 1, half)) \o ToLowerCase(SubSeq(s, half + 1, Len(s)))

PadStart3(s) ==
    IF Len(s) >= 3 THEN s ELSE IF Len(s) = 2 THEN "0" \o s ELSE IF Len(s) = 1 THEN "00" \o s ELSE "000"

Digits == <<"0", "1", "2", "3", "4", "5", "6", "7", "8", "9">>

IsDigit(c) == \E d \in 1..10 : Digits[d] = c

DigitVal(c) == (CHOOSE d \in 1..10 : Digits[d] = c) - 1

\* the value and the length of the longest run of digits of s from position i
RECURSIVE DigitRun(_, _, _, _)
DigitRun(s, ix, v, n) ==
    IF ix <= Len(s) /\ IsDigit(SubSeq(s, ix, ix))
    THEN DigitRun(s, ix + 1, 10 * v + DigitVal(SubSeq(s, ix, ix)), n + 1)
    ELSE [v |-> v, n |-> n]

NaN == [nan |-> TRUE, v |-> 0]

Num(n) == [nan |-> FALSE, v |-> n]

\* parseInt(text): leading blanks, a sign, then decimal digits; NaN without digits
ParseInt(text) ==
    LET s == TrimStart(text)
        neg == Len(s) > 0 /\ SubSeq(s, 1, 1) = "-"
        signed == Len(s) > 0 /\ SubSeq(s, 1, 1) \in {"-", "+"}
        run == DigitRun(s, IF signed THEN 2 ELSE 1, 0, 0)
    IN  IF run.n = 0 THEN NaN ELSE Num(IF neg THEN 0 - run.v ELSE run.v)

\* a > b on numbers: false as soon as one side is NaN
NumGt(a, b) == ~a.nan /\ ~b.nan /\ a.v > b.v

\* parseFloat(text) > 0: digits, then an optional fraction; NaN is not > 0
ParseFloatPositive(text) ==
    LET s == TrimStart(text)
        neg == Len(s) > 0 /\ SubSeq(s, 1, 1) = "-"
        signed == Len(s) > 0 /\ SubSeq(s, 1, 1) \in {"-", "+"}
        from == IF signed THEN 2 ELSE 1
        int == DigitRun(s, from, 0, 0)
        dot == from + int.n
        frac == IF dot <= Len(s) /\ SubSeq(s, dot, dot) = "."
                THEN DigitRun(s, dot + 1, 0, 0) ELSE [v |-> 0, n |-> 0]
    IN  ~neg /\ (int.n + frac.n > 0) /\ (int.v > 0 \/ frac.v > 0)

(***************************************************************************)
(* Dates.  new Date(text) of "YYYY-MM-DD" is that day at 00:00 UTC; any     *)
(* other text of the inputs used here is an Invalid Date, which compares   *)
(* false with everything.  The clock reads Today, after midnight.          *)
(***************************************************************************)
Today == [y |-> 2026, m |-> 11, d |-> 4]

InvalidDate == [valid |-> FALSE, y |-> 0, m |-> 0, d |-> 0]

IsLeap(y) == (y % 4 = 0 /\ y % 100 # 0) \/ y % 400 = 0

DaysInMonth(y, m) ==
    IF m = 2 THEN (IF IsLeap(y) THEN 29 ELSE 28)
    ELSE IF m \in {4, 6, 9, 11} THEN 30 ELSE 31

NewDate(text) ==
    IF Len(text) # 10 \/ SubSeq(text, 5, 5) # "-" \/ SubSeq(text, 8, 8) # "-"
    THEN InvalidDate
    ELSE LET y == DigitRun(text, 1, 0, 0)
             m == DigitRun(text, 6, 0, 0)
             d == DigitRun(text, 9, 0, 0)
         IN  IF y.n # 4 \/ m.n # 2 \/ d.n # 2 \/ m.v \notin 1..12 \/ d.v \notin 1..31
             THEN InvalidDate
             ELSE [valid |-> TRUE, y |-> y.v, m |-> m.v, d |-> d.v]

\* a day that overflows its month rolls into the next one, as Date does
Normalize(y, m, d) ==
    IF d > DaysInMonth(y, m)
    THEN (IF m = 12 THEN [y |-> y + 1, m |-> 1, d |-> d - DaysInMonth(y, m)]
          ELSE [y |-> y, m |-> m + 1, d |-> d - DaysInMonth(y, m)])
    ELSE [y |-> y, m |-> m, d |-> d]

\* now.setFullYear(now.getFullYear() - n)
YearsAgo(n) == Normalize(Today.y - n, Today.m, Today.d)

\* now.setMonth(now.getMonth() - n), n < 12
MonthsAgo(n) ==
    IF Today.m > n THEN Normalize(Today.y, Today.m - n, Today.d)
    ELSE Normalize(Today.y - 1, Today.m + 12 - n, Today.d)

DayLeq(a, b) ==
    \/ a.y < b.y
    \/ a.y = b.y /\ a.m < b.m
    \/ a.y = b.y /\ a.m = b.m /\ a.d <= b.d

\* an Invalid Date read as the epoch, which is before every threshold
BeforeOrInvalid(date, day) == ~date.valid \/ DayLeq(date, day)

\* date < instant of day `day` after midnight
DateBefore(date, day) == date.valid /\ DayLeq(date, day)

\* date > instant of day `day` after midnight
DateAfter(date, day) == date.valid /\ ~DayLeq(date, day)

(***************************************************************************)
(* Array helpers                                                           *)
(***************************************************************************)
Cond(c, v) == IF c THEN <<v>> ELSE <<>>

RECURSIVE PickFrom(_, _, _)
PickFrom(seq, keep, ix) ==
    IF ix > Len(seq) THEN <<>>
    ELSE (IF ix \in keep THEN <<seq[ix]>> ELSE <<>>) \o PickFrom(seq, keep, ix + 1)

RECURSIVE Flat(_)
Flat(seqs) == IF seqs = <<>> THEN <<>> ELSE Head(seqs) \o Flat(Tail(seqs))

(***************************************************************************)
(* crc-knowledge-integration.ts.  The section sign of the texts is written *)
(* $ here (one character for one character).                               *)
(***************************************************************************)
generateCRCViolations(accountData) ==
       Cond(Get(accountData, "DerogatoryDataIndicator") = "Y",
            "Metro 2 Violation: Inaccurate derogatory data indicator - CRC Furnisher Framework indicates direct furnisher pressure required [Field 04]")
    \o Cond(Get(accountData, "IsChargeoffIndicator") = "Y",
            "Metro 2 Violation: Charge-off reporting without proper validation - CRC Advanced Disputing shows charge-offs don't mean debt forgiveness [Field 06]")
    \o Cond(Get(accountData, "IsCollectionIndicator") = "Y",
            "Metro 2 Violation: Collection reporting without FDCPA compliance - CRC knowledge requires 3rd party collector validation [Field 07]")
    \o Cond(Truthy(Get(accountData, "PastDueAmount"))
              /\ ParseFloatPositive(Get(accountData, "PastDueAmount")),
            "FCRA Violation: Inaccurate past due amount reporting without proper verification [FCRA $$ 623(a)] - CRC Basic Course shows payment history is 35% of credit score")
    \o Cond(Truthy(Get(accountData, "DateOfFirstDelinquency")),
            "FCRA Violation: Disputed date of first delinquency requires reinvestigation [FCRA $$ 611] - CRC Advanced Letters show 30-day reinvestigation requirement under 15 U.S.C. Sec. 1681i(a)")
    \o (IF Get(accountData, "AccountType") = "Collection"
           \/ Get(accountData, "IsCollectionIndicator") = "Y"
        THEN << "FDCPA Violation: Collection account lacks proper debt validation - CRC Workbook shows validation demand rights under 15 USC 1692g Sec. 809 (8)",
                "FDCPA Violation: Continued reporting of disputed debt without validation - CRC Advanced Letters show estoppel by silence strategy applies" >>
        ELSE <<>>)

generateCRCDisputes(accountData) ==
       Cond(Get(accountData, "DerogatoryDataIndicator") = "Y",
            "Apply CRC Furnisher Framework: Send Round 1 dispute letter directly to furnisher, then escalate with warning letter if verified")
    \o Cond(Get(accountData, "IsCollectionIndicator") = "Y",
            "Use CRC Advanced Strategy: Demand debt validation under FDCPA, then apply estoppel by silence if no response within 30 days")
    \o Cond(Get(accountData, "IsChargeoffIndicator") = "Y",
            "Implement CRC Charge-off Strategy: Challenge verification methods and apply maximum pressure to both bureau and furnisher")
    \o Cond(Truthy(Get(accountData, "PastDueAmount"))
              /\ ParseFloatPositive(Get(accountData, "PastDueAmount")),
            "Apply CRC Late Payment Strategy: Dispute payment history accuracy and request method of verification from furnisher")
    \o Cond(Get(accountData, "AccountType") = "Medical"
              \/ Includes(ToLowerCase(Get(accountData, "CreditorName")), "medical"),
            "Use CRC HIPAA Strategy: Request medical debt validation using HIPAA laws for specialized medical collection removal")

generateSourceCitation(violationType) ==
    IF Includes(violationType, "Metro 2") THEN "Source: CRC Advanced Disputing Workbook, Page 3-46"
    ELSE IF Includes(violationType, "FCRA") THEN "Source: CRC Basic Disputing Course, Page 1-15"
    ELSE IF Includes(violationType, "FDCPA") THEN "Source: CRC Top 10 Advanced Dispute Letters, Page 1-292"
    ELSE "Source: CRC Advanced Disputing Workbook, Page 3-46"

(***************************************************************************)
(* compliance-resource-validator.ts                                        *)
(***************************************************************************)
Violation(text, source, page) == [violation |-> text, source |-> source, page |-> page]

\* the CRC violations that contain `keyword`, each with its citation
CrcViolations(account, keyword) ==
    LET crc == generateCRCViolations(account)
        keep == {ix \in 1..Len(crc) : Includes(crc[ix], keyword)}
        picked == PickFrom(crc, keep, 1)
    IN  [ix \in 1..Len(picked) |-> Violation(picked[ix], generateSourceCitation(picked[ix]), "")]

\* the first-delinquency rule cited as the rules after it are
Metro2CitedFromGuide(account) ==
    LET currentRating == Get(account, "_CURRENT_RATING.@_Code")
        accountStatus == Get(account, "@_AccountStatus")
        termsDuration == Get(account, "@_TermsDuration")
        currentBalance == ParseInt(OrElse(Get(account, "@_CurrentBalance"), "0"))
        creditLimit == ParseInt(OrElse(Get(account, "@_CreditLimit"), "0"))
    IN     CrcViolations(account, "Metro 2")
        \o Cond(Get(account, "@_DerogatoryDataIndicator") = "Y"
                  /\ ~Truthy(Get(account, "@_DateOfFirstDelinquency")),
                Violation("Metro 2 Violation: Missing Date of First Delinquency [Field 30] - Required for accounts 180+ days delinquent",
                          "Credit Reporting Resource Guide 2020", "Section 4.2.1"))
        \o Cond(currentRating \in {"2", "3", "4", "5", "6", "7", "8", "9"}
                  /\ accountStatus \in {"11", "13", "61"},
                Violation("Metro 2 Violation: Account Status inconsistent with Payment Rating [Field 13] - Closed status conflicts with delinquent payment code",
                          "Credit Reporting Resource Guide 2020", "Section 3.1.4"))
        \o Cond(Truthy(termsDuration)
                  /\ (Len(termsDuration) # 3 \/ ParseInt(termsDuration).nan),
                Violation("Metro 2 Violation: Invalid Terms Duration format [Field 16] - Must be 3 digits, zero-filled",
                          "Credit Reporting Resource Guide 2020", "Section 2.3.7"))
        \o Cond(NumGt(creditLimit, Num(0)) /\ NumGt(currentBalance, creditLimit),
                Violation("Metro 2 Violation: Current Balance exceeds Credit Limit [Field 06] - Balance cannot exceed established credit limit",
                          "Credit Reporting Resource Guide 2020", "Section 2.2.3"))

validateMetro2Violations(account) ==
    LET currentRating == Get(account, "_CURRENT_RATING.@_Code")
        accountStatus == Get(account, "@_AccountStatus")
        termsDuration == Get(account, "@_TermsDuration")
        currentBalance == ParseInt(OrElse(Get(account, "@_CurrentBalance"), "0"))
        creditLimit == ParseInt(OrElse(Get(account, "@_CreditLimit"), "0"))
    IN     CrcViolations(account, "Metro 2")
        \o Cond(Get(account, "@_DerogatoryDataIndicator") = "Y"
                  /\ ~Truthy(Get(account, "@_DateOfFirstDelinquency")),
                Violation("Metro 2 Violation: Missing Date of First Delinquency [Field 30] - Required for accounts 180+ days delinquent",
                          "CRC Advanced Disputing Workbook, Page 3-46", "Section 4.2.1"))
        \o Cond(currentRating \in {"2", "3", "4", "5", "6", "7", "8", "9"}
                  /\ accountStatus \in {"11", "13", "61"},
                Violation("Metro 2 Violation: Account Status inconsistent with Payment Rating [Field 13] - Closed status conflicts with delinquent payment code",
                          "Credit Reporting Resource Guide 2020", "Section 3.1.4"))
        \o Cond(Truthy(termsDuration)
                  /\ (Len(termsDuration) # 3 \/ ParseInt(termsDuration).nan),
                Violation("Metro 2 Violation: Invalid Terms Duration format [Field 16] - Must be 3 digits, zero-filled",
                          "Credit Reporting Resource Guide 2020", "Section 2.3.7"))
        \o Cond(NumGt(creditLimit, Num(0)) /\ NumGt(currentBalance, creditLimit),
                Violation("Metro 2 Violation: Current Balance exceeds Credit Limit [Field 06] - Balance cannot exceed established credit limit",
                          "Credit Reporting Resource Guide 2020", "Section 2.2.3"))

\* currentBalance >= 0 in place of currentBalance > 0
FcraDischargeNotNegative(account) ==
    LET dateOpened == Get(account, "@_DateOpened")
        currentBalance == ParseInt(OrElse(Get(account, "@_CurrentBalance"), "0"))
    IN     CrcViolations(account, "FCRA")
        \o Cond(Truthy(dateOpened)
                  /\ DateBefore(NewDate(dateOpened), YearsAgo(7))
                  /\ Get(account, "@_DerogatoryDataIndicator") = "Y",
                Violation("FCRA Violation: Outdated negative account - accounts older than 7 years violate FCRA $ 605(a)(4)",
                          "CRC Basic Disputing Course, Page 1-15", "Page 3"))
        \o Cond(Get(account, "@_AccountStatus") \in {"61", "62"}
                  /\ NumGt(currentBalance, Num(-1)),
                Violation("FCRA Violation: Bankruptcy discharge inaccuracies - discharged debts showing positive balance violate FCRA $ 605(a)(1)",
                          "FCRA Top 10 Violations Guide", "Page 4"))
        \o Cond(Truthy(Get(account, "@_AccountNumber")) /\ Truthy(Get(account, "@_SubscriberCode")),
                Violation("FCRA Violation: Potential duplicate account - same account reported multiple times violates FCRA $ 623(a)(1)(B)",
                          "FCRA Top 10 Violations Guide", "Page 5"))

validateFCRAViolations(account) ==
    LET dateOpened == Get(account, "@_DateOpened")
        currentBalance == ParseInt(OrElse(Get(account, "@_CurrentBalance"), "0"))
    IN     CrcViolations(account, "FCRA")
        \o Cond(Truthy(dateOpened)
                  /\ DateBefore(NewDate(dateOpened), YearsAgo(7))
                  /\ Get(account, "@_DerogatoryDataIndicator") = "Y",
                Violation("FCRA Violation: Outdated negative account - accounts older than 7 years violate FCRA $ 605(a)(4)",
                          "CRC Basic Disputing Course, Page 1-15", "Page 3"))
        \o Cond(Get(account, "@_AccountStatus") \in {"61", "62"}
                  /\ NumGt(currentBalance, Num(0)),
                Violation("FCRA Violation: Bankruptcy discharge inaccuracies - discharged debts showing positive balance violate FCRA $ 605(a)(1)",
                          "FCRA Top 10 Violations Guide", "Page 4"))
        \o Cond(Truthy(Get(account, "@_AccountNumber")) /\ Truthy(Get(account, "@_SubscriberCode")),
                Violation("FCRA Violation: Potential duplicate account - same account reported multiple times violates FCRA $ 623(a)(1)(B)",
                          "FCRA Top 10 Violations Guide", "Page 5"))

validateFDCPAViolations(account) ==
    LET currentBalance == ParseInt(OrElse(Get(account, "@_CurrentBalance"), "0"))
        originalBalance == ParseInt(OrElse(Get(account, "@_OriginalBalance"), "0"))
        lastActivityDate == Get(account, "@_DateLastActivity")
    IN     CrcViolations(account, "FDCPA")
        \o Cond(Get(account, "@IsCollectionIndicator") \in {"Y", "true"}
                  /\ NumGt(currentBalance, originalBalance),
                Violation("FDCPA Violation: Misrepresenting the amount owed - collection balance exceeds original debt violates FDCPA $ 807(2)(A)",
                          "CRC Top 10 Advanced Dispute Letters, Page 1-292", "Page 12"))
        \o Cond(Get(account, "@IsChargeoffIndicator") \in {"Y", "true"}
                  /\ Truthy(lastActivityDate)
                  /\ DateAfter(NewDate(lastActivityDate), MonthsAgo(6)),
                Violation("FDCPA Violation: Continued collection activity on charged-off debt without proper validation violates FDCPA $ 809(b)",
                          "FDCPA Guide", "Page 15"))

generateValidatedSuggestions(violations) ==
    LET one(v) ==
          IF Includes(v.violation, "Date of First Delinquency") THEN
            <<"Apply CRC Furnisher Framework: Request verification of the Date of First Delinquency and supporting documentation for the reported delinquency period.">>
          ELSE IF Includes(v.violation, "Account Status inconsistent") THEN
            <<"Use CRC Advanced Strategy: Dispute the account status code and request alignment with the actual payment history and account standing.">>
          ELSE IF Includes(v.violation, "Outdated") THEN
            <<"Implement CRC Basic Disputing: Request removal of outdated information that exceeds the legal reporting period under FCRA guidelines.">>
          ELSE IF Includes(v.violation, "Bankruptcy discharge") THEN
            <<"Apply CRC Advanced Letters: Dispute the positive balance and request zero balance reflecting the bankruptcy discharge status.">>
          ELSE IF Includes(v.violation, "Duplicate") THEN
            <<"Use CRC Warning Strategy: Request removal of duplicate account entries and consolidation of accurate account information.">>
          ELSE IF Includes(v.violation, "Misrepresenting the amount") THEN
            <<"Apply CRC Debt Validation: Dispute the inflated balance amount and request verification of the original debt amount under FDCPA $ 809.">>
          ELSE IF Includes(v.violation, "Collection") THEN
            <<"Implement CRC Collection Strategy: Demand debt validation under FDCPA, then apply estoppel by silence if no response within 30 days.">>
          ELSE IF Includes(v.violation, "Charge-off") THEN
            <<"Use CRC Charge-off Strategy: Challenge verification methods and apply maximum pressure to both bureau and furnisher.">>
          ELSE <<>>
    IN  Flat([ix \in 1..Len(violations) |-> one(violations[ix])])

\* the FDCPA test written before the FCRA test
FdcpaBeforeFcra(a, b) ==
    IF Includes(a, "Metro 2") /\ ~Includes(b, "Metro 2") THEN -1
    ELSE IF ~Includes(a, "Metro 2") /\ Includes(b, "Metro 2") THEN 1
    ELSE IF Includes(a, "FDCPA") /\ ~Includes(b, "FDCPA") THEN -1
    ELSE IF ~Includes(a, "FDCPA") /\ Includes(b, "FDCPA") THEN 1
    ELSE IF Includes(a, "FCRA") /\ ~Includes(b, "FCRA") THEN -1
    ELSE IF ~Includes(a, "FCRA") /\ Includes(b, "FCRA") THEN 1
    ELSE 0

\* the comparator of the three sorts: Metro 2, then FCRA, then FDCPA
CategoryCompare(a, b) ==
    IF Includes(a, "Metro 2") /\ ~Includes(b, "Metro 2") THEN -1
    ELSE IF ~Includes(a, "Metro 2") /\ Includes(b, "Metro 2") THEN 1
    ELSE IF Includes(a, "FCRA") /\ ~Includes(b, "FCRA") THEN -1
    ELSE IF ~Includes(a, "FCRA") /\ Includes(b, "FCRA") THEN 1
    ELSE IF Includes(a, "FDCPA") /\ ~Includes(b, "FDCPA") THEN -1
    ELSE IF ~Includes(a, "FDCPA") /\ Includes(b, "FDCPA") THEN 1
    ELSE 0

\* Array.prototype.sort of seq with this comparator read on `texts`, the text of
\* each element; the comparator is consistent, so the result is the stable order
SortedBy(seq, texts) ==
    LET n == Len(seq)
        pos(ix) == 1 + Cardinality({j \in 1..n :
                        \/ CategoryCompare(texts[j], texts[ix]) < 0
                        \/ CategoryCompare(texts[j], texts[ix]) = 0 /\ j < ix})
    IN  [p \in 1..n |-> seq[CHOOSE ix \in 1..n : pos(ix) = p]]

\* texts.sort(comparator)
SortTexts(texts) == SortedBy(texts, texts)

removeDuplicatesAndSort(violations) ==
    LET first == {ix \in 1..Len(violations) :
                    \A j \in 1..(ix - 1) :
                        Trim(violations[j].violation) # Trim(violations[ix].violation)}
        uniqueViolations == PickFrom(violations, first, 1)
    IN  SortedBy(uniqueViolations,
                 [k \in 1..Len(uniqueViolations) |-> uniqueViolations[k].violation])

\* s === suggestion in place of s.trim() === suggestion.trim()
DuplicatesUntrimmed(suggestions) ==
    LET first == {ix \in 1..Len(suggestions) :
                    \A j \in 1..(ix - 1) : suggestions[j] # suggestions[ix]}
    IN  SortTexts(PickFrom(suggestions, first, 1))

removeDuplicateSuggestions(suggestions) ==
    LET first == {ix \in 1..Len(suggestions) :
                    \A j \in 1..(ix - 1) : Trim(suggestions[j]) # Trim(suggestions[ix])}
        uniqueSuggestions == PickFrom(suggestions, first, 1)
    IN  SortTexts(uniqueSuggestions)

formatValidationResult(violations) ==
    LET sortedViolations == removeDuplicatesAndSort(violations)
        hasViolations == Len(sortedViolations) > 0
        suggestions == IF hasViolations THEN generateValidatedSuggestions(sortedViolations) ELSE <<>>
    IN  [violations |-> sortedViolations,
         suggestions |-> removeDuplicateSuggestions(suggestions),
         hasViolations |-> hasViolations,
         noViolationMessage |-> IF hasViolations THEN "" ELSE NO_VIOLATION_MESSAGE]

validateAccount(account) ==
    formatValidationResult(validateMetro2Violations(account)
                           \o validateFCRAViolations(account)
                           \o validateFDCPAViolations(account))

validatePublicRecord(record) ==
    LET dateReported == OrElse(Get(record, "@_DateReported"), Get(record, "@_DateFiled"))
    IN  formatValidationResult(
               Cond(Truthy(dateReported) /\ DateBefore(NewDate(dateReported), YearsAgo(7)),
                    Violation("FCRA Violation: Outdated public record - records older than 7 years violate FCRA $ 605(a)(4)",
                              "FCRA Top 10 Violations Guide", "Page 8"))
            \o Cond(~Truthy(Get(record, "@_ComplianceConditionCode")),
                    Violation("Metro 2 Violation: Missing Compliance Condition Code [Field 33] - Required for all public records",
                              "Credit Reporting Resource Guide 2020", "Section 5.1.2")))

validateInquiry(inquiry) ==
    LET inquiryDate == Get(inquiry, "@_DateOfInquiry")
    IN  formatValidationResult(
               Cond(Truthy(inquiryDate) /\ DateBefore(NewDate(inquiryDate), YearsAgo(2)),
                    Violation("FCRA Violation: Outdated inquiry - inquiries older than 2 years violate FCRA $ 605(a)(7)",
                              "FCRA Top 10 Violations Guide", "Page 9"))
            \o Cond(~Truthy(Get(inquiry, "@_InquiryPurpose")),
                    Violation("Metro 2 Violation: Missing Inquiry Purpose [Field 11] - Required for all credit inquiries",
                              "Credit Reporting Resource Guide 2020", "Section 6.1.1")))

(***************************************************************************)
(* Inputs.  An item is [f, jsonLen, summaryLen]: the fields the code       *)
(* reads, the length of JSON.stringify(item) and the length of the JSON    *)
(* text of the summary processItemWithAI builds of it (fields the rules do *)
(* not read, such as the payment history, count in the two lengths).       *)
(***************************************************************************)
Item(f, jsonLen, summaryLen) == [f |-> f, jsonLen |-> jsonLen, summaryLen |-> summaryLen]

\* an open account in good standing; its summary is exactly at the item budget
PlainAccount ==
    Item(("@_AccountStatus" :> "Open") @@ ("@_CurrentBalance" :> "500")
           @@ ("@_CreditLimit" :> "1000"), 4074, 4000)

\* a derogatory liability of a public-record account type, without its
\* first-delinquency date; the client lists it as an account and as a record
DerogLiability ==
    Item(("@CreditLiabilityID" :> "L1") @@ ("@_DerogatoryDataIndicator" :> "Y")
           @@ ("@_AccountType" :> "93"), 96, 260)

\* an account whose summary is one character over the item budget
LongAccount ==
    Item(("@_DerogatoryDataIndicator" :> "Y")
           @@ ("@_DateOfFirstDelinquency" :> "2021-05-01"), 4205, 4001)

PlainRecord == Item(("@_ComplianceConditionCode" :> "XB"), 33, 150)

\* a very long record of subscriber S1, filed more than seven years ago
BulkRecord ==
    Item(("@_SubscriberCode" :> "S1") @@ ("@_DateFiled" :> "2015-01-01"), 399900, 300)

PlainInquiry == Item(("@_InquiryPurpose" :> "CreditCard"), 45, 120)

OldInquiry ==
    Item(("@InquiryKey" :> "Q1") @@ ("@_DateOfInquiry" :> "2020-01-01"), 46, 130)

AccountSamples == {PlainAccount, DerogLiability, LongAccount}

RecordSamples == {PlainRecord, DerogLiability, BulkRecord}

InquirySamples == {PlainInquiry, OldInquiry}

SeqsUpTo(S, n) == UNION {[1..k -> S] : k \in 0..n}

\* the request bodies: the mixed payloads, and the payloads of plain accounts
Bodies ==
    {[CREDIT_LIABILITY |-> a, PUBLIC_RECORD |-> r, INQUIRY |-> q] :
        a \in SeqsUpTo(AccountSamples, MaxAccounts),
        r \in SeqsUpTo(RecordSamples, MaxRecords),
        q \in SeqsUpTo(InquirySamples, MaxInquiries)}
    \cup {[CREDIT_LIABILITY |-> [k \in 1..n |-> PlainAccount],
           PUBLIC_RECORD |-> <<>>, INQUIRY |-> <<>>] : n \in 0..MaxItems}

\* the replies of the completion service, as the lines of the message content
UsualReply ==
    << "- Metro 2 Violation: Missing Date of First Delinquency [Field 13A]",
       "- FCRA Violation: Inaccurate account status reporting [FCRA $ 623(a)]",
       "- FDCPA Violation: Debt collection without proper creditor identification [FDCPA $ 807]" >>

NoneReply ==
    << "No violations identified",
       "This account appears to be reported accurately by the furnisher." >>

EmptyReply == << >>

OddReplies == {NoneReply, EmptyReply}

\* the errors a call may throw
CallErrors == {"429 You exceeded your current quota (insufficient_quota)", "Connection error."}

(***************************************************************************)
(* Token arithmetic                                                        *)
(***************************************************************************)
\* Math.ceil(text.length / 4), on the length of the text
\* Math.floor in place of Math.ceil
FloorTokens(length) == length \div 4

countTokens(length) == (length + 3) \div 4

RECURSIVE SumJsonLen(_)
SumJsonLen(items) == IF items = <<>> THEN 0 ELSE Head(items).jsonLen + SumJsonLen(Tail(items))

\* the length of JSON.stringify of an array of items
ArrayLength(items) == 2 + SumJsonLen(items) + (IF Len(items) > 1 THEN Len(items) - 1 ELSE 0)

\* the length of JSON.stringify(creditData):
\* {"CREDIT_LIABILITY":[..],"PUBLIC_RECORD":[..],"INQUIRY":[..]}
SerializedLength(creditData) ==
    2 + 19 + ArrayLength(creditData.CREDIT_LIABILITY)
      + 1 + 16 + ArrayLength(creditData.PUBLIC_RECORD)
      + 1 + 10 + ArrayLength(creditData.INQUIRY)

InputTooLarge(creditData) == countTokens(SerializedLength(creditData)) > MAX_INPUT_TOKENS

\* `>=` in place of `>` in the check of the item budget
AtItemBudget(item) == countTokens(item.summaryLen) >= TOKENS_PER_ACCOUNT_LIMIT

ItemTooLarge(item) == countTokens(item.summaryLen) > TOKENS_PER_ACCOUNT_LIMIT

(***************************************************************************)
(* Work list and item ids                                                  *)
(***************************************************************************)
Entry(item, itemType, index) ==
    [item |-> item, itemType |-> itemType, originalIndex |-> index, inquiryIndex |-> index]

\* allItemsToProcess; position p of the sequence is itemIndex p - 1
allItemsToProcess(creditData) ==
       [k \in 1..Len(creditData.CREDIT_LIABILITY) |->
            Entry(creditData.CREDIT_LIABILITY[k], "account", k - 1)]
    \o [k \in 1..Len(creditData.PUBLIC_RECORD) |->
            Entry(creditData.PUBLIC_RECORD[k], "public_record", k - 1)]
    \o [k \in 1..Len(creditData.INQUIRY) |->
            Entry(creditData.INQUIRY[k], "inquiry", k - 1)]

\* the itemId of processItemWithAI(item, itemIndex)
AiItemId(entry, itemIndex) ==
    IF entry.itemType = "account"
    THEN OrElse(Get(entry.item.f, "@CreditLiabilityID"),
                "TRADE" \o PadStart3(ToString(itemIndex + 1)))
    ELSE IF entry.itemType = "public_record"
    THEN OrElse(Get(entry.item.f, "@CreditLiabilityID"),
                OrElse(Get(entry.item.f, "@_SubscriberCode"),
                       "record_" \o ToString(itemIndex)))
    ELSE OrElse(Get(entry.item.f, "@_InquiryIdentifier"),
                "inquiry_" \o ToString(entry.inquiryIndex))

\* the ids of generateStaticViolations and generateStaticSuggestions (index from 0)
StaticAccountId(account, index) ==
    OrElse(Get(account.f, "@CreditLiabilityID"), "TRADE" \o PadStart3(ToString(index + 1)))

StaticRecordId(record, index) ==
    OrElse(Get(record.f, "@RecordKey"),
           OrElse(Get(record.f, "@CreditLiabilityID"),
                  "PUBLIC-RECORD-" \o PadStart3(ToString(index + 1))))

StaticInquiryId(inquiry, index) ==
    OrElse(Get(inquiry.f, "@InquiryKey"),
           OrElse(Get(inquiry.f, "@_InquiryKey"),
                  "INQUIRY-" \o PadStart3(ToString(index + 1))))

StaticItemId(entry) ==
    IF entry.itemType = "account" THEN StaticAccountId(entry.item, entry.originalIndex)
    ELSE IF entry.itemType = "public_record" THEN StaticRecordId(entry.item, entry.originalIndex)
    ELSE StaticInquiryId(entry.item, entry.originalIndex)

(***************************************************************************)
(* Static mode: generateStaticViolations and generateStaticSuggestions     *)
(***************************************************************************)
\* the validator's results for the items of the inputs, computed once
AccountResults == [a \in AccountSamples |-> validateAccount(a.f)]

RecordResults == [r \in RecordSamples |-> validatePublicRecord(r.f)]

InquiryResults == [q \in InquirySamples |-> validateInquiry(q.f)]

AccountDisputes == [a \in AccountSamples |-> generateCRCDisputes(a.f)]

validateAccountWithResources(account) == AccountResults[account]

validatePublicRecordWithResources(record) == RecordResults[record]

validateInquiryWithResources(inquiry) == InquiryResults[inquiry]

validateWithResources(entry) ==
    IF entry.itemType = "account" THEN validateAccountWithResources(entry.item)
    ELSE IF entry.itemType = "public_record" THEN validatePublicRecordWithResources(entry.item)
    ELSE validateInquiryWithResources(entry.item)

\* `${v.violation} (Source: ${v.source}${v.page ? `, ${v.page}` : ''})`
FormatViolation(v) ==
    v.violation \o " (Source: " \o v.source
        \o (IF Truthy(v.page) THEN ", " \o v.page ELSE "") \o ")"

\* the branch of the sentinel left out: a clean item gets the empty list
StoredWithoutElse(validationResult) ==
    [k \in 1..Len(validationResult.violations) |->
        FormatViolation(validationResult.violations[k])]

\* the list generateStaticViolations stores for a validation result, before the sort
StoredViolations(validationResult) ==
    IF validationResult.hasViolations
    THEN [k \in 1..Len(validationResult.violations) |->
              FormatViolation(validationResult.violations[k])]
    ELSE << OrElse(validationResult.noViolationMessage, NO_VIOLATION_MESSAGE) >>

StaticItemViolations(entry) == StoredViolations(validateWithResources(entry))

\* an object written key by key in the order of `writes`: the last write of a key stays
ObjectOf(writes) ==
    [id \in {writes[k].itemId : k \in 1..Len(writes)} |->
        LET last == CHOOSE k \in 1..Len(writes) :
                        /\ writes[k].itemId = id
                        /\ \A j \in (k + 1)..Len(writes) : writes[j].itemId # id
        IN  writes[last].value]

\* [...new Set(list)]
SetOf(list) ==
    PickFrom(list, {k \in 1..Len(list) : \A j \in 1..(k - 1) : list[j] # list[k]}, 1)

Elements(list) == {list[k] : k \in 1..Len(list)}

\* list.filter(v => ...), given the set of the values the test accepts
Keep(list, accepted) == PickFrom(list, {k \in 1..Len(list) : list[k] \in accepted}, 1)

\* list.filter(v => v.includes('Metro 2'))
Metro2Only(list) == Keep(list, {v \in Elements(list) : Includes(v, "Metro 2")})

\* list.filter(v => v.includes('FCRA') || v.includes('FDCPA'))
FcraFdcpaOnly(list) ==
    Keep(list, {v \in Elements(list) : Includes(v, "FCRA") \/ Includes(v, "FDCPA")})

\* list.filter(v => v !== "No Metro 2 / FCRA / FDCPA violation detected for this item.")
WithoutSentinel(list) == Keep(list, {v \in Elements(list) : v # NO_VIOLATION_MESSAGE})

RECURSIVE SumLen(_, _)
SumLen(object, keys) ==
    IF keys = {} THEN 0
    ELSE LET k == CHOOSE x \in keys : TRUE
         IN  Len(object[k]) + SumLen(object, keys \ {k})

ScanMessage(accounts, publicRecords, inquiries) ==
    "AI analysis completed: Found violations across " \o ToString(accounts)
        \o " accounts, " \o ToString(publicRecords) \o " public records, and "
        \o ToString(inquiries) \o " inquiries"

\* the else branch of the fallback suggestions left out
NoDefault(list, fallback) == list

\* `list.length > 0 ? list : fallback`
OrDefault(list, fallback) == IF Len(list) > 0 THEN list ELSE fallback

DefaultAccountSuggestions ==
    << "Apply CRC Furnisher Framework: Send Round 1 dispute letter directly to furnisher with reason and instruction",
       "Use CRC Advanced Strategy: Demand debt validation under FDCPA $ 809, then apply estoppel by silence if no response",
       "Implement CRC Maximum Pressure: Challenge verification methods and apply pressure to both bureau and furnisher" >>

DefaultRecordSuggestions ==
    << "Verify public record authenticity under FCRA $ 613 - request court documentation and filing verification",
       "Challenge reporting timeframe under FCRA $ 605 - seven-year reporting limit for most public records",
       "Dispute record accuracy under FCRA $ 623 - demand Metro 2 compliance for all public record fields" >>

DefaultInquirySuggestions ==
    << "Challenge inquiry authorization under FCRA $ 604 - demand written permissible purpose documentation",
       "Dispute inquiry accuracy under FCRA $ 623 - request Metro 2 compliance verification for inquiry fields",
       "Verify inquiry legitimacy under FDCPA $ 807 - require proof of authorized access and business relationship" >>

\* the suggestions generateStaticSuggestions stores for one item
ItemSuggestions(entry) ==
    IF entry.itemType = "account"
    THEN OrDefault(validateAccountWithResources(entry.item).suggestions
                       \o AccountDisputes[entry.item],
                   DefaultAccountSuggestions)
    ELSE IF entry.itemType = "public_record"
    THEN OrDefault(validatePublicRecordWithResources(entry.item).suggestions,
                   DefaultRecordSuggestions)
    ELSE OrDefault(validateInquiryWithResources(entry.item).suggestions,
                   DefaultInquirySuggestions)

\* the suggestions object the three loops fill, each item under its static id
SuggestionsObject(items) ==
    ObjectOf([k \in 1..Len(items) |->
                 [itemId |-> StaticItemId(items[k]), value |-> ItemSuggestions(items[k])]])

generateStaticSuggestions(creditData) == SuggestionsObject(allItemsToProcess(creditData))

\* the violations object the three loops fill, each item under its static id
ViolationsObject(items) ==
    ObjectOf([k \in 1..Len(items) |->
                 [itemId |-> StaticItemId(items[k]), value |-> StaticItemViolations(items[k])]])

\* the deduplicated and sorted lists of generateStaticViolations
ProcessViolations(violations) ==
    [id \in DOMAIN violations |-> SortTexts(SetOf(violations[id]))]

\* the lists without the sentinel, which the counts are taken from
ActualViolations(processedViolations) ==
    [id \in DOMAIN processedViolations |-> WithoutSentinel(processedViolations[id])]

\* the object generateStaticViolations returns
StaticPayload(creditData, violations, processedViolations, actual) ==
    [success |-> TRUE,
     totalViolations |-> SumLen(actual, DOMAIN actual),
     affectedAccounts |-> Cardinality(DOMAIN violations),
     violations |-> processedViolations,
     metro2Violations |-> [id \in DOMAIN violations |-> Metro2Only(actual[id])],
     fcrFdcpaViolations |-> [id \in DOMAIN violations |-> FcraFdcpaOnly(actual[id])],
     suggestions |-> generateStaticSuggestions(creditData),
     breakdown |-> [accounts |-> Len(creditData.CREDIT_LIABILITY),
                    publicRecords |-> Len(creditData.PUBLIC_RECORD),
                    inquiries |-> Len(creditData.INQUIRY)],
     message |-> ScanMessage(Len(creditData.CREDIT_LIABILITY),
                             Len(creditData.PUBLIC_RECORD), Len(creditData.INQUIRY)),
     tokenInfo |-> [inputTokens |-> 0, itemsAnalyzedWithAI |-> 0,
                    itemsSkippedByTokens |-> 0,
                    totalItemsProcessed |-> Cardinality(DOMAIN violations),
                    fallbackUsed |-> TRUE]]

StaticCounts(creditData, violations, processedViolations) ==
    StaticPayload(creditData, violations, processedViolations,
                  ActualViolations(processedViolations))

StaticSorted(creditData, violations) ==
    StaticCounts(creditData, violations, ProcessViolations(violations))

generateStaticViolations(creditData) ==
    StaticSorted(creditData, ViolationsObject(allItemsToProcess(creditData)))

(***************************************************************************)
(* Assisted mode: the reply of the completion service                      *)
(***************************************************************************)
\* the phrases of a line that says there is nothing to report
GenericPhrases ==
    {"none identified", "no violations identified", "none apparent", "not applicable",
     "n/a", "no violation", "none found"}

\* line.replace('- ', prefix) of a line that starts with '- '
Reclassify(line) ==
    IF Includes(line, "[FCRA $") /\ ~StartsWith(line, "- FCRA Violation:")
    THEN "- FCRA Violation: " \o SubSeq(line, 3, Len(line))
    ELSE IF Includes(line, "[Field ") /\ ~StartsWith(line, "- Metro 2 Violation:")
    THEN "- Metro 2 Violation: " \o SubSeq(line, 3, Len(line))
    ELSE IF Includes(line, "[FDCPA $") /\ ~StartsWith(line, "- FDCPA Violation:")
    THEN "- FDCPA Violation: " \o SubSeq(line, 3, Len(line))
    ELSE line

\* .map(line => line.trim()).filter(line => line.length > 0)
TrimmedLines(content) ==
    Keep([k \in 1..Len(content) |-> Trim(content[k])],
         {Trim(content[k]) : k \in 1..Len(content)} \ {""})

\* .filter(line => line.length > 10): the filter without its test of the marker
LongLines(lines) == Keep(lines, {line \in Elements(lines) : Len(line) > 10})

\* .filter(line => line.startsWith('- ') && line.length > 10)
Bullets(lines) ==
    Keep(lines, {line \in Elements(lines) : StartsWith(line, "- ") /\ Len(line) > 10})

\* .map(line => ...): the reclassification of each line
Reclassified(lines) == [k \in 1..Len(lines) |-> Reclassify(lines[k])]

\* .filter(line => isNotEmpty && hasContent)
Substantial(lines) ==
    Keep(lines, {line \in Elements(lines) :
                    /\ \A phrase \in GenericPhrases : ~Includes(ToLowerCase(line), phrase)
                    /\ Len(line) > 30})

\* validViolations of a reply, given as its lines
ParseResponse(content) == Substantial(Reclassified(Bullets(TrimmedLines(content))))

Replies == {UsualReply} \cup OddReplies

ParsedReplies == [content \in Replies |-> ParseResponse(content)]

\* `if (response)`: a missing or empty message content is falsy
HasContent(content) == content # << >> /\ content # << "" >>

\* what processItemWithAI's promise settles to
Resolved(itemId, violations) ==
    [state |-> "fulfilled", error |-> "", itemId |-> itemId, violations |-> violations]

Rejected(error) ==
    [state |-> "rejected", error |-> error, itemId |-> "", violations |-> << >>]

\* the promise of a processItemWithAI that is at its await
Pending == [state |-> "pending", error |-> "", itemId |-> "", violations |-> << >>]

\* processItemWithAI without its catch block: the error leaves the function
Rethrow(itemId, error) == Rejected(error)

\* the catch block of processItemWithAI
CatchItemError(itemId, error) == Resolved(itemId, << >>)

(***************************************************************************)
(* Assisted mode: the payload performAiScan returns                        *)
(***************************************************************************)
IsTradeKey(id) == StartsWith(id, "TRADE")

IsPublicRecordKey(id) == Includes(id, "PUBLIC-RECORD")

IsInquiryKey(id) == Includes(id, "INQUIRY")

\* The request body is {CREDIT_LIABILITY, PUBLIC_RECORD, INQUIRY}, as the client
\* sends it: creditData.CREDIT_RESPONSE is absent, and the loop over
\* remainingPublicRecords adds nothing to the violations.
AiPayload(creditData, allResults, analyzed, skipped) ==
    LET violations == ObjectOf([k \in 1..Len(allResults) |->
                          [itemId |-> allResults[k].itemId, value |-> allResults[k].violations]])
        keys == DOMAIN violations
        accountViolations == Cardinality({id \in keys : IsTradeKey(id)})
        publicRecordViolations == Cardinality({id \in keys : IsPublicRecordKey(id)})
        inquiryViolations == Cardinality({id \in keys : IsInquiryKey(id)})
    IN  [success |-> TRUE,
         totalViolations |-> SumLen(violations, keys),
         affectedAccounts |-> Cardinality(keys),
         violations |-> violations,
         metro2Violations |-> [id \in keys |-> Metro2Only(violations[id])],
         fcrFdcpaViolations |-> [id \in keys |-> FcraFdcpaOnly(violations[id])],
         suggestions |-> generateStaticSuggestions(creditData),
         breakdown |-> [accounts |-> accountViolations,
                        publicRecords |-> publicRecordViolations,
                        inquiries |-> inquiryViolations],
         message |-> ScanMessage(accountViolations, publicRecordViolations, inquiryViolations),
         tokenInfo |-> [inputTokens |-> countTokens(SerializedLength(creditData)),
                        itemsAnalyzedWithAI |-> analyzed,
                        itemsSkippedByTokens |-> skipped,
                        totalItemsProcessed |-> Len(allResults),
                        fallbackUsed |-> FALSE]]

(***************************************************************************)
(* The route: what POST /api/ai-scan answers                               *)
(***************************************************************************)
Ok(result) == [status |-> 200, body |-> result]

ErrorBody(error, message) ==
    [success |-> FALSE, error |-> error, message |-> message, fallbackUsed |-> TRUE]

\* the catch block of the route, on the message of the error performAiScan threw
RouteError(message) ==
    IF Includes(message, "INPUT_TOO_LARGE")
    THEN [status |-> 413,
          body |-> ErrorBody("INPUT_TOO_LARGE",
                       "Credit data is too large for AI analysis. Using static violations instead.")]
    ELSE IF Includes(message, "insufficient_quota")
    THEN [status |-> 429,
          body |-> ErrorBody("QUOTA_EXCEEDED",
                       "OpenAI API quota exceeded. Using static violations instead.")]
    ELSE [status |-> 500,
          body |-> ErrorBody("AI_SCAN_FAILED", "AI scan failed. Using static violations instead.")]

InputTooLargeMessage(tokens) ==
    "INPUT_TOO_LARGE: " \o ToString(tokens) \o " tokens exceeds limit"

(***************************************************************************)
(* The scan as a state machine: one POST /api/ai-scan request              *)
(***************************************************************************)
VARIABLES
    body,                       \* req.body
    apiKey,                     \* whether process.env.OPENAI_API_KEY is set
    pc,                         \* "request", "awaiting" (at Promise.all), "responded"
    i,                          \* the loop variable of processInBatches
    status,                     \* itemIndex -> "waiting", "running" or "settled"
    promises,                   \* itemIndex -> the promise batch.map made for it
    results,                    \* the results array of processInBatches
    accountsAnalyzedWithAI,
    accountsSkippedByTokens,
    response,                   \* what the route sent; status 0 before
    started,                    \* itemIndex -> calls of processItemWithAI for it
    called,                     \* itemIndex -> completion calls made for it
    batches,                    \* batches dispatched
    outcome,                    \* itemIndex -> how its completion call ended
    faults,                     \* calls that ended otherwise than with UsualReply
    subject,                    \* the argument of a direct call of the rule evaluator
    verdict,                    \* what that call returned
    row,                        \* the state and props of one PublicRecordRow
    personalInfo,               \* the state of the PersonalInfo section
    accountsSection             \* the scan state of the accounts section of the page

vars == << body, apiKey, pc, i, status, promises, results, accountsAnalyzedWithAI,
           accountsSkippedByTokens, response, started, called, batches, outcome, faults,
           subject, verdict, row, personalInfo, accountsSection >>

\* the components of the page
clientVars == << row, personalInfo, accountsSection >>

\* a component that is not rendered
Unmounted == [mounted |-> FALSE]

\* no direct call of the evaluator is made during a request
NoSubject == [kind |-> "none"]

NoVerdict == [done |-> FALSE]

Items == allItemsToProcess(body)

ItemCount == Len(Items)

ItemIndexes == 0..(ItemCount - 1)

Min(a, b) == IF a < b THEN a ELSE b

\* items.slice(from, from + batchSize + 1): a batch that takes one item more
WideBatch(from) == from..(Min(from + MAX_CONCURRENT_REQUESTS + 1, ItemCount) - 1)

\* the indexes of items.slice(from, from + batchSize)
BatchIndices(from) == from..(Min(from + MAX_CONCURRENT_REQUESTS, ItemCount) - 1)

\* Promise.race in place of Promise.all: the batch is done with its first result
FirstSettled == \E k \in DOMAIN promises : promises[k].state = "fulfilled"

\* Promise.all of the batch resolves: every promise of it is fulfilled
BatchSettled == \A k \in DOMAIN promises : promises[k].state = "fulfilled"

Init ==
    /\ body \in Bodies
    /\ apiKey \in BOOLEAN
    /\ pc = "request"
    /\ i = 0
    /\ status = [k \in ItemIndexes |-> "waiting"]
    /\ promises = << >>
    /\ results = << >>
    /\ accountsAnalyzedWithAI = 0
    /\ accountsSkippedByTokens = 0
    /\ response = [status |-> 0]
    /\ started = [k \in ItemIndexes |-> 0]
    /\ called = [k \in ItemIndexes |-> 0]
    /\ batches = 0
    /\ outcome = [k \in ItemIndexes |-> "none"]
    /\ faults = 0
    /\ subject = NoSubject
    /\ verdict = NoVerdict
    /\ row = Unmounted
    /\ personalInfo = Unmounted
    /\ accountsSection = Unmounted

\* batch.map(processItemWithAI) of the batch that starts at `from`: each item runs
\* to its first await; an item over the budget is counted and resolves at once
Dispatch(from) ==
    LET batch == BatchIndices(from)
        skip == {k \in batch : ItemTooLarge(Items[k + 1].item)}
    IN  /\ i' = from
        /\ pc' = "awaiting"
        /\ batches' = batches + 1
        /\ started' = [k \in ItemIndexes |-> IF k \in batch THEN started[k] + 1 ELSE started[k]]
        /\ called' = [k \in ItemIndexes |->
                         IF k \in batch \ skip THEN called[k] + 1 ELSE called[k]]
        /\ status' = [k \in ItemIndexes |->
                         IF k \in skip THEN "settled"
                         ELSE IF k \in batch THEN "running" ELSE status[k]]
        /\ promises' = [k \in batch |->
                           IF k \in skip THEN Resolved(AiItemId(Items[k + 1], k), << >>)
                           ELSE Pending]
        /\ accountsSkippedByTokens' = accountsSkippedByTokens + Cardinality(skip)

\* performAiScan returns and the route sends the payload
Finish(allResults) ==
    /\ pc' = "responded"
    /\ response' = Ok(AiPayload(body, allResults, accountsAnalyzedWithAI,
                                accountsSkippedByTokens))
    /\ UNCHANGED << i, status, promises, accountsSkippedByTokens, started, called, batches >>

\* performAiScan throws and the route's catch block answers
Abort(message) ==
    /\ pc' = "responded"
    /\ response' = RouteError(message)

\* the handler runs from the request to its first await or to its response
StartScan ==
    /\ pc = "request"
    /\ UNCHANGED << body, apiKey, results, accountsAnalyzedWithAI, outcome, faults,
                    subject, verdict, clientVars >>
    /\ IF InputTooLarge(body)
       THEN /\ Abort(InputTooLargeMessage(countTokens(SerializedLength(body))))
            /\ UNCHANGED << i, status, promises, accountsSkippedByTokens,
                            started, called, batches >>
       ELSE IF ~apiKey
       THEN /\ pc' = "responded"
            /\ response' = Ok(generateStaticViolations(body))
            /\ UNCHANGED << i, status, promises, accountsSkippedByTokens,
                            started, called, batches >>
       ELSE IF ItemCount = 0
       THEN Finish(<< >>)
       ELSE /\ Dispatch(0)
            /\ UNCHANGED response

\* a promise of processItemWithAI settles: resolved, its value is kept for the
\* batch; rejected, Promise.all rejects and the scan ends in the route's catch
Settle(k, settled, how) ==
    /\ outcome' = [outcome EXCEPT ![k] = how]
    /\ status' = [status EXCEPT ![k] = "settled"]
    /\ UNCHANGED << body, apiKey, i, results, accountsSkippedByTokens, started, called,
                    batches, subject, verdict, clientVars >>
    /\ promises' = [promises EXCEPT ![k] = settled]
    /\ IF settled.state = "rejected"
       THEN Abort(settled.error)
       ELSE UNCHANGED << pc, response >>

\* the completion call of item k returns a message
CallReturns(k, content) ==
    /\ pc = "awaiting"
    /\ status[k] = "running"
    /\ content # UsualReply => faults < MaxFaults
    /\ faults' = IF content # UsualReply THEN faults + 1 ELSE faults
    /\ LET itemId == AiItemId(Items[k + 1], k)
       IN  IF HasContent(content)
           THEN /\ accountsAnalyzedWithAI' = accountsAnalyzedWithAI + 1
                /\ Settle(k, Resolved(itemId, ParsedReplies[content]),
                          IF content = UsualReply THEN "usual" ELSE "odd")
           ELSE /\ UNCHANGED accountsAnalyzedWithAI
                /\ Settle(k, Resolved(itemId, << >>), "empty")

\* the completion call of item k throws
CallFails(k, error) ==
    /\ pc = "awaiting"
    /\ status[k] = "running"
    /\ faults < MaxFaults
    /\ faults' = faults + 1
    /\ UNCHANGED accountsAnalyzedWithAI
    /\ Settle(k, CatchItemError(AiItemId(Items[k + 1], k), error), error)

\* Promise.all resolves: the batch's results are pushed, then the next batch is
\* dispatched or the payload is built and sent
BatchDone ==
    /\ pc = "awaiting"
    /\ BatchSettled
    /\ LET batch == BatchIndices(i)
           batchResults == [k \in 1..Cardinality(batch) |-> promises[i + k - 1]]
           next == i + MAX_CONCURRENT_REQUESTS
       IN  /\ results' = results \o batchResults
           /\ UNCHANGED << body, apiKey, accountsAnalyzedWithAI, outcome, faults,
                           subject, verdict, clientVars >>
           /\ IF next < ItemCount
              THEN /\ Dispatch(next)
                   /\ UNCHANGED response
              ELSE Finish(results \o batchResults)

Next ==
    \/ StartScan
    \/ \E k \in ItemIndexes, content \in Replies : CallReturns(k, content)
    \/ \E k \in ItemIndexes, error \in CallErrors : CallFails(k, error)
    \/ BatchDone

Spec == Init /\ [][Next]_vars

(***************************************************************************)
(* Properties of the batching of the assisted scan                         *)
(***************************************************************************)
\* the batch an item falls in: its position divided by the cap
BatchOf(k) == k \div 5

CeilDiv(n, d) == IF n % d = 0 THEN n \div d ELSE (n \div d) + 1

Running == {k \in ItemIndexes : status[k] = "running"}

Failed == {k \in ItemIndexes : outcome[k] \in CallErrors}

AssistedDone == pc = "responded" /\ apiKey /\ ~InputTooLarge(body)

\* C1: no item of a batch is handed to processItemWithAI, and none of its calls
\* is made, while an item of an earlier batch has not finished; the calls of a
\* batch finish in every order and with every outcome
C1_BatchesDoNotOverlap ==
    \A k \in ItemIndexes :
        (started[k] > 0 \/ called[k] > 0) =>
            \A j \in ItemIndexes : BatchOf(j) < BatchOf(k) => status[j] = "settled"

\* the second batch is in flight after a call of the first batch failed
C1_SecondBatchAfterFailure ==
    /\ pc = "awaiting"
    /\ i = 5
    /\ called[5] = 1
    /\ \E j \in 0..4 : j \in Failed

\* C2: the items go out in ceil(N/5) consecutive batches, each item once, and
\* never more than 5 calls are in flight
C2_BatchCount ==
    /\ \A k \in ItemIndexes : started[k] = (IF BatchOf(k) < batches THEN 1 ELSE 0)
    /\ \A k \in ItemIndexes : called[k] <= 1
    /\ Cardinality(Running) <= 5
    /\ batches <= CeilDiv(ItemCount, 5)
    /\ AssistedDone => batches = CeilDiv(ItemCount, 5)

\* a scan of 12 items has answered after 3 batches
C2_TwelveItemsThreeBatches ==
    /\ AssistedDone
    /\ ItemCount = 12
    /\ batches = 3
    /\ response.status = 200

\* the ids that one item of the scan alone has
OwnId(k) == \A j \in ItemIndexes \ {k} : AiItemId(Items[j + 1], j) # AiItemId(Items[k + 1], k)

\* C3: after the call of an item failed the scan goes on and answers with a
\* success payload; the item's result has no violations, and every item has
\* been processed
C3_FailureDoesNotAbort ==
    \A k \in Failed :
        /\ response.status \in {0, 200}
        /\ k \in DOMAIN promises =>
              promises[k] = Resolved(AiItemId(Items[k + 1], k), << >>)
        /\ pc = "responded" =>
              /\ response.body.success
              /\ Len(results) = ItemCount
              /\ results[k + 1].violations = << >>
              /\ \A j \in ItemIndexes : started[j] = 1 /\ status[j] = "settled"
              /\ response.body.tokenInfo.totalItemsProcessed = ItemCount
              /\ OwnId(k) =>
                    response.body.violations[AiItemId(Items[k + 1], k)] = << >>

\* a scan of more than one batch has answered after a call of its first batch failed
C3_AnsweredAfterFailure ==
    /\ pc = "responded"
    /\ response.status = 200
    /\ ItemCount > 5
    /\ \E k \in Failed : k < 5
    /\ \E j \in ItemIndexes : outcome[j] = "usual"

(***************************************************************************)
(* Properties of the keys of the result map                                *)
(***************************************************************************)
Succeeded == pc = "responded" /\ response.status = 200

\* C4: the violations map of a success payload has one entry per input item
C4_OneEntryPerItem ==
    Succeeded => Cardinality(DOMAIN response.body.violations) = ItemCount

\* C5: each item of an assisted scan is stored under the key that
\* generateStaticViolations stores it under
C5_SameKeyInBothModes ==
    (Succeeded /\ apiKey) =>
        \A k \in ItemIndexes : results[k + 1].itemId = StaticItemId(Items[k + 1])

(***************************************************************************)
(* Properties of the fallbacks and of the size guards                      *)
(***************************************************************************)
StaticShape == {"violations", "suggestions", "totalViolations", "affectedAccounts",
                "breakdown", "tokenInfo"}

\* C6: an assisted scan of an input over the ceiling answers without an error,
\* with a payload of the static shape and tokenInfo.fallbackUsed = true
C6_OversizedGetsStaticPayload ==
    (pc = "responded" /\ apiKey /\ CeilDiv(SerializedLength(body), 4) > 100000) =>
        /\ response.status = 200
        /\ StaticShape \subseteq DOMAIN response.body
        /\ response.body.tokenInfo.fallbackUsed

QuotaErrors == {e \in CallErrors : Includes(e, "insufficient_quota")}

\* C7: a scan in which a call reported quota exhaustion answers with the
\* static payload: every item carries the result of the static rules
C7_QuotaFallsBackToStatic ==
    (pc = "responded" /\ \E k \in ItemIndexes : outcome[k] \in QuotaErrors) =>
        /\ response.status = 200
        /\ response.body.tokenInfo.fallbackUsed
        /\ response.body.violations = generateStaticViolations(body).violations

\* C8: the scan fails with INPUT_TOO_LARGE exactly when a quarter of the
\* serialized length, rounded up, is over 100000, and then no item has been
\* handed to processItemWithAI and no completion call has been made
C8_SizeGuard ==
    LET over == CeilDiv(SerializedLength(body), 4) > 100000
    IN  /\ over => \A k \in ItemIndexes : started[k] = 0 /\ called[k] = 0
        /\ pc = "responded" =>
              /\ over <=> response.status = 413
              /\ over <=> (response.status # 200 /\ response.body.error = "INPUT_TOO_LARGE")

\* an input of 400001 characters, one over the ceiling, has been refused
C8_RefusedOneOver ==
    /\ pc = "responded"
    /\ apiKey
    /\ SerializedLength(body) = 400001
    /\ response.status = 413

\* item k's summary is over 1000 tokens
TooLong(k) == CeilDiv(Items[k + 1].item.summaryLen, 4) > 1000

Affected(violations) ==
    {id \in DOMAIN violations : WithoutSentinel(violations[id]) # << >>}

\* C10: affectedAccounts of a success payload is the number of items with a
\* violation, and totalViolations is the number of violations of all items
C10_CountsOfViolations ==
    Succeeded =>
        /\ response.body.affectedAccounts = Cardinality(Affected(response.body.violations))
        /\ response.body.totalViolations =
              SumLen([id \in DOMAIN response.body.violations |->
                         WithoutSentinel(response.body.violations[id])],
                     DOMAIN response.body.violations)

(***************************************************************************)
(* The rule evaluator called directly: one call of validateAccount,        *)
(* validatePublicRecord, validateInquiry, of one of the two normalizers,   *)
(* or of generateStaticViolations, on an argument drawn from the sets      *)
(* below.  The request variables stay as they are before a request.        *)
(***************************************************************************)
\* no field: a place of an item left empty
NoField == [key |-> "", val |-> ""]

Field(key, val) == [key |-> key, val |-> val]

\* the fields the account rules read, with values on both sides of each test
AccountFieldPool ==
    { Field("@_DerogatoryDataIndicator", "Y"),
      Field("@_DateOfFirstDelinquency", "2021-05-01"),
      Field("@_AccountStatus", "Closed"), Field("@_AccountStatus", "61"),
      Field("@_AccountStatus", "62"),
      Field("@_CurrentBalance", "500"), Field("@_CurrentBalance", "0"),
      Field("@_CurrentBalance", "N/A"),
      Field("@_CreditLimit", "300"), Field("@_CreditLimit", "0"),
      Field("@_CreditLimit", "N/A"),
      Field("@_OriginalBalance", "300"), Field("@_OriginalBalance", "0"),
      Field("@_OriginalBalance", "N/A"),
      Field("@IsCollectionIndicator", "Y"), Field("@IsChargeoffIndicator", "Y"),
      Field("@_DateLastActivity", "2026-09-01"), Field("@_DateLastActivity", "Unknown"),
      Field("@_DateOpened", "2015-01-01"), Field("@_DateOpened", "Unknown"),
      Field("DerogatoryDataIndicator", "Y"), Field("IsCollectionIndicator", "Y") }

RecordFieldPool ==
    { Field("@_DateReported", "2015-01-01"), Field("@_DateReported", "Unknown"),
      Field("@_DateFiled", "2015-01-01"), Field("@_DateFiled", "2024-01-01"),
      Field("@_ComplianceConditionCode", "XB") }

InquiryFieldPool ==
    { Field("@_DateOfInquiry", "2020-01-01"), Field("@_DateOfInquiry", "2026-01-01"),
      Field("@_DateOfInquiry", "Unknown"), Field("@_InquiryPurpose", "CreditCard") }

\* the item that holds the fields of `fields`, the first of a key written twice
RECURSIVE ItemOf(_)
ItemOf(fields) ==
    IF fields = << >> THEN [key \in {} |-> ""]
    ELSE IF Head(fields) = NoField THEN ItemOf(Tail(fields))
    ELSE (Head(fields).key :> Head(fields).val) @@ ItemOf(Tail(fields))

\* the items of at most MaxFields fields of a pool
ItemsFrom(pool) == {ItemOf(t) : t \in [1..MaxFields -> pool \cup {NoField}]}

EvalAccounts == ItemsFrom(AccountFieldPool)

EvalRecords == ItemsFrom(RecordFieldPool)

EvalInquiries == ItemsFrom(InquiryFieldPool)

\* texts handed to the normalizers: one of each category, one without a keyword,
\* one that differs from another by blanks only, one with two keywords
Texts ==
    { "Metro 2 Violation: A", "  Metro 2 Violation: A ", "FCRA Violation: B",
      "FDCPA Violation: C", "Other: D", "Metro 2 Violation: E without FDCPA compliance" }

TextLists == SeqsUpTo(Texts, MaxLen)

\* the violations of these texts, cited as the CRC loop cites them
ViolationsOf(list) ==
    [k \in 1..Len(list) |-> Violation(list[k], generateSourceCitation(list[k]), "")]

Subjects ==
         {[kind |-> "account", item |-> a] : a \in EvalAccounts}
    \cup {[kind |-> "public_record", item |-> r] : r \in EvalRecords}
    \cup {[kind |-> "inquiry", item |-> q] : q \in EvalInquiries}
    \cup {[kind |-> "violations", violations |-> ViolationsOf(t)] : t \in TextLists}
    \cup {[kind |-> "suggestions", suggestions |-> t] : t \in TextLists}
    \cup {[kind |-> "scan", creditData |-> b] : b \in Bodies}

requestVars == << body, apiKey, pc, i, status, promises, results, accountsAnalyzedWithAI,
                  accountsSkippedByTokens, response, started, called, batches, outcome,
                  faults >>

\* no request is being served
NoRequest ==
    /\ body = [CREDIT_LIABILITY |-> << >>, PUBLIC_RECORD |-> << >>, INQUIRY |-> << >>]
    /\ apiKey = FALSE
    /\ pc = "request"
    /\ i = 0
    /\ status = << >>
    /\ promises = << >>
    /\ results = << >>
    /\ accountsAnalyzedWithAI = 0
    /\ accountsSkippedByTokens = 0
    /\ response = [status |-> 0]
    /\ started = << >>
    /\ called = << >>
    /\ batches = 0
    /\ outcome = << >>
    /\ faults = 0

EvalInit ==
    /\ subject \in Subjects
    /\ verdict = NoVerdict
    /\ NoRequest
    /\ row = Unmounted
    /\ personalInfo = Unmounted
    /\ accountsSection = Unmounted

\* the call returns `value`; the argument is only read
Returns(value) ==
    /\ verdict' = [done |-> TRUE, value |-> value]
    /\ UNCHANGED << subject, requestVars, clientVars >>

CallValidateAccount ==
    /\ subject.kind = "account" /\ ~verdict.done
    /\ Returns(validateAccount(subject.item))

CallValidatePublicRecord ==
    /\ subject.kind = "public_record" /\ ~verdict.done
    /\ Returns(validatePublicRecord(subject.item))

CallValidateInquiry ==
    /\ subject.kind = "inquiry" /\ ~verdict.done
    /\ Returns(validateInquiry(subject.item))

CallRemoveDuplicatesAndSort ==
    /\ subject.kind = "violations" /\ ~verdict.done
    /\ Returns(removeDuplicatesAndSort(subject.violations))

CallRemoveDuplicateSuggestions ==
    /\ subject.kind = "suggestions" /\ ~verdict.done
    /\ Returns(removeDuplicateSuggestions(subject.suggestions))

CallGenerateStaticViolations ==
    /\ subject.kind = "scan" /\ ~verdict.done
    /\ Returns(generateStaticViolations(subject.creditData))

EvalNext ==
    \/ CallValidateAccount
    \/ CallValidatePublicRecord
    \/ CallValidateInquiry
    \/ CallRemoveDuplicatesAndSort
    \/ CallRemoveDuplicateSuggestions
    \/ CallGenerateStaticViolations

EvalSpec == EvalInit /\ [][EvalNext]_vars

(***************************************************************************)
(* Properties of the rule evaluator and of the static scan                 *)
(***************************************************************************)
Evaluated(kinds) == verdict.done /\ subject.kind \in kinds

ItemKinds == {"account", "public_record", "inquiry"}

\* the item at place k wrote the list the object holds under its id
LastWriter(items, k) ==
    \A j \in (k + 1)..Len(items) : StaticItemId(items[j]) # StaticItemId(items[k])

\* no predicate of the three account evaluators matches
TriggersNothing(account) ==
    /\ validateMetro2Violations(account) = << >>
    /\ validateFCRAViolations(account) = << >>
    /\ validateFDCPAViolations(account) = << >>

\* C11: an item that triggers no predicate has an empty violations list in the
\* evaluator's result, no result of the evaluator holds the sentinel as a
\* violation, and the list the static scan formats, deduplicates and sorts for a
\* clean item, and returns under its id, is the sentinel alone.
C11_SentinelOnlyAfterFormatting ==
    /\ Evaluated(ItemKinds) =>
          /\ \A k \in 1..Len(verdict.value.violations) :
                 verdict.value.violations[k].violation # NO_VIOLATION_MESSAGE
          /\ (subject.kind = "account" /\ TriggersNothing(subject.item))
                 => verdict.value.violations = << >>
          /\ verdict.value.violations = << >>
                 => SortTexts(SetOf(StoredViolations(verdict.value)))
                        = << NO_VIOLATION_MESSAGE >>
    /\ Evaluated({"scan"}) =>
          \A k \in 1..Len(allItemsToProcess(subject.creditData)) :
             (/\ LastWriter(allItemsToProcess(subject.creditData), k)
              /\ validateWithResources(allItemsToProcess(subject.creditData)[k]).violations
                    = << >>)
             => verdict.value.violations[StaticItemId(allItemsToProcess(subject.creditData)[k])]
                    = << NO_VIOLATION_MESSAGE >>

\* a scan of the open account alone returned the sentinel for it
C11_CleanAccountScanned ==
    /\ Evaluated({"scan"})
    /\ subject.creditData.CREDIT_LIABILITY = << PlainAccount >>
    /\ verdict.value.violations["TRADE001"] = << NO_VIOLATION_MESSAGE >>

NormalizerKinds == {"violations", "suggestions"}

\* the texts of the list handed to the normalizer, and of the list it returned
GivenTexts ==
    IF subject.kind = "violations"
    THEN [k \in 1..Len(subject.violations) |-> subject.violations[k].violation]
    ELSE subject.suggestions

ReturnedTexts ==
    IF subject.kind = "violations"
    THEN [k \in 1..Len(verdict.value) |-> verdict.value[k].violation]
    ELSE verdict.value

\* the list is [x, x, y] with x and y different after trimming
IsXXY(list) ==
    Len(list) = 3 /\ list[1] = list[2] /\ Trim(list[3]) # Trim(list[1])

\* no two returned entries are equal after trimming, every given text is returned
\* (up to trimming), and each returned entry is the first occurrence of its text
Deduplicated ==
    /\ \A p, q \in 1..Len(ReturnedTexts) :
          p # q => Trim(ReturnedTexts[p]) # Trim(ReturnedTexts[q])
    /\ \A k \in 1..Len(GivenTexts) :
          \E p \in 1..Len(ReturnedTexts) : Trim(ReturnedTexts[p]) = Trim(GivenTexts[k])
    /\ \A p \in 1..Len(ReturnedTexts) :
          \E k \in 1..Len(GivenTexts) :
             /\ GivenTexts[k] = ReturnedTexts[p]
             /\ \A j \in 1..(k - 1) : Trim(GivenTexts[j]) # Trim(GivenTexts[k])

\* C12 (as amended): for the violation list and for the suggestion list, the
\* normalizer's output has no two entries equal after trimming, holds every
\* given text up to trimming, keeps the first occurrence of each, and
\* normalize([x, x, y]) is [x, y] unless y's category comes before x's, when it
\* is [y, x].
C12_DedupThenCategoryOrder ==
    Evaluated(NormalizerKinds) =>
       /\ Deduplicated
       /\ IsXXY(GivenTexts) =>
             ReturnedTexts = IF CategoryCompare(GivenTexts[3], GivenTexts[1]) < 0
                             THEN << GivenTexts[3], GivenTexts[1] >>
                             ELSE << GivenTexts[1], GivenTexts[3] >>

\* [FCRA, FCRA, Metro 2] was normalized to [Metro 2, FCRA]
C12_DuplicateDroppedAndMoved ==
    /\ Evaluated({"suggestions"})
    /\ subject.suggestions = << "FCRA Violation: B", "FCRA Violation: B", "Metro 2 Violation: A" >>
    /\ verdict.value = << "Metro 2 Violation: A", "FCRA Violation: B" >>

\* C12 as stated: normalize([x, x, y]) = [x, y] for all distinct x and y
C12_FirstOccurrenceOrderKept ==
    Evaluated(NormalizerKinds) =>
       /\ Deduplicated
       /\ IsXXY(GivenTexts) => ReturnedTexts = << GivenTexts[1], GivenTexts[3] >>

\* the partition of a text: the first of the three keywords it contains
Partition(text) ==
    IF Includes(text, "Metro 2") THEN 1
    ELSE IF Includes(text, "FCRA") THEN 2
    ELSE IF Includes(text, "FDCPA") THEN 3
    ELSE 4

PartitionOrdered(list) ==
    \A p, q \in 1..Len(list) : p < q => Partition(list[p]) <= Partition(list[q])

\* C13: in every list a normalizer returns, in the violation and suggestion
\* lists of every evaluation result and in every list of a static scan, the
\* texts containing "Metro 2" come first, then those containing "FCRA", then
\* those containing "FDCPA", then the others; and the list [FDCPA, Metro 2,
\* FCRA] comes back as [Metro 2, FCRA, FDCPA].
C13_CategoryOrder ==
    /\ Evaluated(NormalizerKinds) =>
          /\ PartitionOrdered(ReturnedTexts)
          /\ GivenTexts = << "FDCPA Violation: C", "Metro 2 Violation: A", "FCRA Violation: B" >>
                => ReturnedTexts
                     = << "Metro 2 Violation: A", "FCRA Violation: B", "FDCPA Violation: C" >>
    /\ Evaluated(ItemKinds) =>
          /\ PartitionOrdered([k \in 1..Len(verdict.value.violations) |->
                                  verdict.value.violations[k].violation])
          /\ PartitionOrdered(verdict.value.suggestions)
    /\ Evaluated({"scan"}) =>
          \A id \in DOMAIN verdict.value.violations :
             PartitionOrdered(verdict.value.violations[id])

\* the list [FDCPA, Metro 2, FCRA] of violations was sorted
C13_ThreeCategoriesSorted ==
    /\ Evaluated({"violations"})
    /\ GivenTexts = << "FDCPA Violation: C", "Metro 2 Violation: A", "FCRA Violation: B" >>
    /\ ReturnedTexts = << "Metro 2 Violation: A", "FCRA Violation: B", "FDCPA Violation: C" >>

\* the place of the first occurrence of `text` in `list`
FirstIndex(list, text) ==
    CHOOSE k \in 1..Len(list) : list[k] = text /\ \A j \in 1..(k - 1) : list[j] # text

\* two texts of `returned` that are of one partition stand as they stood in `given`
StableWithinPartitions(given, returned) ==
    \A p, q \in 1..Len(returned) :
       (p < q /\ Partition(returned[p]) = Partition(returned[q]))
          => FirstIndex(given, returned[p]) < FirstIndex(given, returned[q])

\* the violations of an account in the order the three evaluators raise them
RaisedTexts(account) ==
    LET raised == validateMetro2Violations(account) \o validateFCRAViolations(account)
                      \o validateFDCPAViolations(account)
    IN  [k \in 1..Len(raised) |-> raised[k].violation]

\* C14: the sort of the normalizer is a stable partition: two texts of the same
\* partition (Metro 2, FCRA, FDCPA, rest) keep their relative input order, also
\* when a text contains more than one keyword; so for the lists handed to a
\* normalizer and for the violations an account raises.
C14_StableWithinPartition ==
    /\ Evaluated(NormalizerKinds) => StableWithinPartitions(GivenTexts, ReturnedTexts)
    /\ Evaluated({"account"}) =>
          StableWithinPartitions(RaisedTexts(subject.item),
                                 [k \in 1..Len(verdict.value.violations) |->
                                     verdict.value.violations[k].violation])

MissingDofdText ==
    "Metro 2 Violation: Missing Date of First Delinquency [Field 30] - Required for accounts 180+ days delinquent"

\* the account without the field `key`
Without(account, key) == [k \in DOMAIN account \ {key} |-> account[k]]

\* the texts of the Metro 2 violations of an evaluation result
Metro2Texts(result) ==
    {result.violations[k].violation : k \in
        {j \in 1..Len(result.violations) : Includes(result.violations[j].violation, "Metro 2")}}

FlaggedWithoutDofd(account) ==
    /\ Get(account, "@_DerogatoryDataIndicator") = "Y"
    /\ ~Truthy(Get(account, "@_DateOfFirstDelinquency"))

\* C15: the result for an account whose derogatory flag is set and whose date of
\* first delinquency is missing holds exactly one "Missing Date of First
\* Delinquency" violation, a Metro 2 one cited "CRC Advanced Disputing Workbook,
\* Page 3-46", and that is the only Metro 2 violation the flag adds: the other
\* Metro 2 violations are those of the same account without the flag.
C15_MissingDofdOnce ==
    (Evaluated({"account"}) /\ FlaggedWithoutDofd(subject.item)) =>
       /\ Cardinality({k \in 1..Len(verdict.value.violations) :
              Includes(verdict.value.violations[k].violation,
                       "Missing Date of First Delinquency")}) = 1
       /\ \A k \in 1..Len(verdict.value.violations) :
             Includes(verdict.value.violations[k].violation,
                      "Missing Date of First Delinquency")
                => /\ verdict.value.violations[k].violation = MissingDofdText
                   /\ verdict.value.violations[k].source
                         = "CRC Advanced Disputing Workbook, Page 3-46"
       /\ Metro2Texts(verdict.value)
             = Metro2Texts(validateAccount(Without(subject.item, "@_DerogatoryDataIndicator")))
                 \cup {MissingDofdText}
       /\ DOMAIN subject.item = {"@_DerogatoryDataIndicator"}
             => Metro2Texts(verdict.value) = {MissingDofdText}

\* a flagged account that other rules match too was evaluated: the missing
\* date is reported beside their violations
C15_FlaggedAmongOthers ==
    /\ Evaluated({"account"})
    /\ FlaggedWithoutDofd(subject.item)
    /\ Len(verdict.value.violations) > 1
    /\ MissingDofdText \in Metro2Texts(verdict.value)

BankruptcyText ==
    "FCRA Violation: Bankruptcy discharge inaccuracies - discharged debts showing positive balance violate FCRA $ 605(a)(1)"

\* the account with the field `key` set to `val`
With(account, key, val) ==
    [k \in DOMAIN account \cup {key} |-> IF k = key THEN val ELSE account[k]]

ViolationTexts(result) ==
    {result.violations[k].violation : k \in 1..Len(result.violations)}

\* the violations that the status and the balance of the account raise together:
\* those it has neither with a balance of 0 nor without its status
StatusBalanceViolations(account) ==
    ViolationTexts(validateAccount(account))
      \ (ViolationTexts(validateAccount(With(account, "@_CurrentBalance", "0")))
            \cup ViolationTexts(validateAccount(Without(account, "@_AccountStatus"))))

Scanned == allItemsToProcess(subject.creditData)

\* the entry at place k matches no predicate, and the lists under its id are its own
CleanAt(k) ==
    /\ LastWriter(Scanned, k)
    /\ validateWithResources(Scanned[k]).violations = << >>

FallbackSuggestions(itemType) ==
    IF itemType = "account" THEN DefaultAccountSuggestions
    ELSE IF itemType = "public_record" THEN DefaultRecordSuggestions
    ELSE DefaultInquirySuggestions

\* C18 (as amended): for an item that matches no predicate, such as the account
\* of status Open, balance 500 and credit limit 1000, the evaluator returns no
\* violation and no suggestion; the scan result holds for it the sentinel alone
\* as its violation list, no Metro 2, FCRA or FDCPA violation, and a suggestion
\* list that is not empty: for the plain items, the three fallback suggestions
\* of the item's kind.
C18_CleanItemGetsFallback ==
    /\ Evaluated(ItemKinds) =>
          (verdict.value.violations = << >>
             => /\ verdict.value.suggestions = << >>
                /\ ~verdict.value.hasViolations
                /\ verdict.value.noViolationMessage = NO_VIOLATION_MESSAGE)
    /\ Evaluated({"scan"}) =>
          \A k \in 1..Len(Scanned) :
             CleanAt(k) =>
                /\ verdict.value.violations[StaticItemId(Scanned[k])]
                      = << NO_VIOLATION_MESSAGE >>
                /\ verdict.value.metro2Violations[StaticItemId(Scanned[k])] = << >>
                /\ verdict.value.fcrFdcpaViolations[StaticItemId(Scanned[k])] = << >>
                /\ verdict.value.suggestions[StaticItemId(Scanned[k])] # << >>
                /\ Scanned[k].item \in {PlainAccount, PlainRecord, PlainInquiry}
                      => verdict.value.suggestions[StaticItemId(Scanned[k])]
                           = FallbackSuggestions(Scanned[k].itemType)

\* the open account was scanned alone: no violation counted, the sentinel and
\* the fallback suggestions returned
C18_OpenAccountScanned ==
    /\ Evaluated({"scan"})
    /\ subject.creditData.CREDIT_LIABILITY = << PlainAccount >>
    /\ subject.creditData.PUBLIC_RECORD = << >>
    /\ subject.creditData.INQUIRY = << >>
    /\ verdict.value.totalViolations = 0
    /\ verdict.value.suggestions["TRADE001"] = DefaultAccountSuggestions

\* C18 as stated: the scan result holds for a clean item the sentinel alone and
\* an empty suggestion list
C18_CleanItemNoSuggestions ==
    Evaluated({"scan"}) =>
       \A k \in 1..Len(Scanned) :
          CleanAt(k) =>
             /\ verdict.value.violations[StaticItemId(Scanned[k])]
                   = << NO_VIOLATION_MESSAGE >>
             /\ verdict.value.suggestions[StaticItemId(Scanned[k])] = << >>

NumericFields == {"@_CurrentBalance", "@_CreditLimit", "@_OriginalBalance"}

\* C19: a numeric field whose text is not a number is treated as 0 in the three
\* numeric comparisons: the account gets the violations it gets with "0" in
\* that field.
C19_NotANumberIsZero ==
    Evaluated({"account"}) =>
       \A key \in NumericFields :
          Get(subject.item, key) = "N/A"
             => ViolationTexts(verdict.value)
                  = ViolationTexts(validateAccount(With(subject.item, key, "0")))

\* a date text that is absent or that new Date() cannot parse
NoDate == {"", "Unknown"}

Mentions(result, phrase) ==
    \E k \in 1..Len(result.violations) : Includes(result.violations[k].violation, phrase)

\* C20: when the date an age rule reads is absent or cannot be parsed, the
\* rule raises nothing and the other rules are evaluated as usual: an account
\* is evaluated as it is without its date opened (7-year rule) or its date of
\* last activity (6-month rule after a charge-off); a public record (7-year
\* rule) and an inquiry (2-year rule) get no outdated violation and still get
\* the violation of a missing code or purpose.
C20_NoDateNoAgeViolation ==
    /\ Evaluated({"account"}) =>
          /\ Get(subject.item, "@_DateOpened") \in NoDate
                => /\ ~Mentions(verdict.value, "Outdated negative account")
                   /\ verdict.value = validateAccount(Without(subject.item, "@_DateOpened"))
          /\ Get(subject.item, "@_DateLastActivity") \in NoDate
                => /\ ~Mentions(verdict.value, "Continued collection activity")
                   /\ verdict.value
                         = validateAccount(Without(subject.item, "@_DateLastActivity"))
    /\ (/\ Evaluated({"public_record"})
        /\ OrElse(Get(subject.item, "@_DateReported"), Get(subject.item, "@_DateFiled"))
              \in NoDate)
          => /\ ~Mentions(verdict.value, "Outdated public record")
             /\ Mentions(verdict.value, "Missing Compliance Condition Code")
                   <=> ~Truthy(Get(subject.item, "@_ComplianceConditionCode"))
    /\ (Evaluated({"inquiry"}) /\ Get(subject.item, "@_DateOfInquiry") \in NoDate)
          => /\ ~Mentions(verdict.value, "Outdated inquiry")
             /\ Mentions(verdict.value, "Missing Inquiry Purpose")
                   <=> ~Truthy(Get(subject.item, "@_InquiryPurpose"))

\* a derogatory account whose date opened cannot be parsed was evaluated: the
\* missing first-delinquency date is reported, no outdated account
C20_UnparsableDateOpened ==
    /\ Evaluated({"account"})
    /\ Get(subject.item, "@_DateOpened") = "Unknown"
    /\ Get(subject.item, "@_DerogatoryDataIndicator") = "Y"
    /\ Mentions(verdict.value, "Missing Date of First Delinquency")
    /\ ~Mentions(verdict.value, "Outdated negative account")

(***************************************************************************)
(* Properties of the error answers of the route                            *)
(***************************************************************************)
\* the body of an error answer: success = false and fallbackUsed = true
FailureBody == ~response.body.success /\ response.body.fallbackUsed

\* C21: a scan that fails is answered once: with status 413 when the input is
\* over the ceiling, with 429 when a completion call reported quota exhaustion,
\* with 500 after every other failure, and each of these answers carries
\* success = false and fallbackUsed = true
C21_OneErrorResponse ==
    pc = "responded" =>
        /\ InputTooLarge(body) => (response.status = 413 /\ FailureBody)
        /\ (~InputTooLarge(body) /\ \E k \in ItemIndexes : outcome[k] \in QuotaErrors) =>
              (response.status = 429 /\ FailureBody)
        /\ response.status # 200 => (response.status \in {413, 429, 500} /\ FailureBody)

\* C22: a scan without an API key answers with the static payload for every
\* input, an input over the global token ceiling included
C22_StaticModeNeverTooLarge ==
    (pc = "responded" /\ ~apiKey) => response = Ok(generateStaticViolations(body))

(***************************************************************************)
(* Properties of the parsing of a reply                                    *)
(***************************************************************************)
\* the violations of every result of the scan so far
KeptViolations ==
    UNION {Elements(results[k].violations) : k \in 1..Len(results)}
      \cup UNION {Elements(promises[k].violations) : k \in DOMAIN promises}

\* the items whose reply was empty or had no line that starts with "- "
Malformed == {k \in ItemIndexes : outcome[k] \in {"odd", "empty"}}

\* C23: a reply that is empty or has no line starting with "- " gives its item
\* no violations and the scan goes on to a success payload with every item
\* processed; every violation kept from a reply starts with "- "
C23_MalformedReplyIsNoFailure ==
    /\ \A text \in KeptViolations : StartsWith(text, "- ")
    /\ \A k \in Malformed :
          /\ response.status \in {0, 200}
          /\ k \in DOMAIN promises =>
                promises[k] = Resolved(AiItemId(Items[k + 1], k), << >>)
          /\ pc = "responded" =>
                /\ response.body.success
                /\ Len(results) = ItemCount
                /\ results[k + 1].violations = << >>
                /\ \A j \in ItemIndexes : status[j] = "settled"

\* a scan of more than one batch has answered after a reply without a bullet
\* line, with the violations of a usual reply kept for another item
C23_AnsweredAfterProse ==
    /\ pc = "responded"
    /\ response.status = 200
    /\ ItemCount > 5
    /\ \E k \in ItemIndexes : k < 5 /\ outcome[k] = "odd"
    /\ \E j \in ItemIndexes : outcome[j] = "usual" /\ Len(results[j + 1].violations) = 3

(***************************************************************************)
(* The id PublicRecordRow derives for the record it shows                  *)
(***************************************************************************)
\* record['@CreditLiabilityID'] || record['@_SubscriberCode']
\*   || `record_${record.index || recordIndex}`
recordId(record, recordIndex) ==
    OrElse(Get(record.f, "@CreditLiabilityID"),
           OrElse(Get(record.f, "@_SubscriberCode"),
                  "record_" \o OrElse(Get(record.f, "index"), ToString(recordIndex))))

PublicRecordIndexes == {k \in ItemIndexes : Items[k + 1].itemType = "public_record"}

\* C24: in a success payload of either mode the violations and the suggestions
\* of the public record at position p are stored under the id PublicRecordRow
\* derives for the record at position p
C24_RecordIdMatchesRow ==
    Succeeded =>
        \A k \in PublicRecordIndexes :
            LET rowId == recordId(Items[k + 1].item, Items[k + 1].originalIndex)
            IN  /\ rowId \in DOMAIN response.body.violations
                /\ rowId \in DOMAIN response.body.suggestions
                /\ StaticItemId(Items[k + 1]) = rowId
                /\ apiKey => results[k + 1].itemId = rowId

\* C25: in a success payload of either mode the suggestions map and the
\* violations map have the same item ids
C25_SameIdsInBothMaps ==
    Succeeded => DOMAIN response.body.suggestions = DOMAIN response.body.violations

(***************************************************************************)
(* PublicRecordRow: one row, the props its parent passes it, and the save  *)
(* choreography of executeSaveLogic.  A handler and the render that        *)
(* follows it, with the effects whose dependencies changed, are one step.  *)
(***************************************************************************)
\* calls of executeSaveLogic that may be at an await at one time
MaxRuns == 2

\* re-save timers that may be pending at one time
MaxTimers == 1

\* an entry of disputeReasons and one of disputeInstructions that the selects offer
ListedReason == "This record has incorrect information"

ListedInstruction == "Verify the accuracy of this record"

\* savedDisputes[recordId]: absent, or the dispute data the parent holds
NoDispute == [present |-> FALSE, reason |-> "", instruction |-> ""]

\* the parent's onDispute(recordId, disputeData): it keeps the data under recordId
onDispute(finalReason, finalInstruction) ==
    [present |-> TRUE, reason |-> finalReason, instruction |-> finalInstruction]

\* the values savedDisputes[recordId] takes: listed texts, and texts of the user
ParentEntries ==
    {NoDispute, onDispute(ListedReason, ListedInstruction), onDispute("Not mine", "Delete it")}

\* hasReason and hasInstruction, which are finalReason and finalInstruction
HasReason(rw) == IF rw.showCustomReasonField THEN Trim(rw.customReason) ELSE rw.selectedReason

HasInstruction(rw) ==
    IF rw.showCustomInstructionField THEN Trim(rw.customInstruction) ELSE rw.selectedInstruction

\* the effect on [expandAll, isChoreographyActive] run without its test of the flag
SyncExpandAllAlways(rw) ==
    IF rw.expandAll # "undefined"
    THEN [rw EXCEPT !.isCollapsed = (rw.expandAll = "false")]
    ELSE rw

\* the effect on [expandAll, isChoreographyActive]
SyncExpandAll(rw) ==
    IF rw.expandAll # "undefined" /\ ~rw.isChoreographyActive
    THEN [rw EXCEPT !.isCollapsed = (rw.expandAll = "false")]
    ELSE rw

\* the effect on [savedDisputes, recordId, isChoreographyActive]
SyncSavedDisputes(rw) ==
    LET isSaved == rw.savedDisputes.present
        savedData == rw.savedDisputes
        synced == IF ~rw.isChoreographyActive
                  THEN [rw EXCEPT !.isDisputeSaved = isSaved,
                                  !.isCollapsed = IF isSaved THEN TRUE ELSE @]
                  ELSE rw
        hasUserSelections == \/ rw.selectedReason # ""
                             \/ rw.selectedInstruction # ""
                             \/ rw.showCustomReasonField
                             \/ rw.showCustomInstructionField
    IN  IF isSaved /\ savedData.reason # "" /\ savedData.instruction # "" /\ ~hasUserSelections
        THEN [synced EXCEPT
                 !.selectedReason = IF savedData.reason = ListedReason THEN savedData.reason ELSE "",
                 !.customReason = IF savedData.reason = ListedReason THEN @ ELSE savedData.reason,
                 !.showCustomReasonField = savedData.reason # ListedReason,
                 !.selectedInstruction =
                     IF savedData.instruction = ListedInstruction THEN savedData.instruction ELSE "",
                 !.customInstruction =
                     IF savedData.instruction = ListedInstruction THEN @ ELSE savedData.instruction,
                 !.showCustomInstructionField = savedData.instruction # ListedInstruction]
        ELSE synced

\* the render after a handler took the row from `shown` to `next`: the effects
\* whose dependencies changed run, on the values of that render
Render(shown, next) ==
    LET flagChanged == next.isChoreographyActive # shown.isChoreographyActive
        one == IF flagChanged \/ next.expandAll # shown.expandAll
               THEN SyncExpandAll(next) ELSE next
    IN  IF flagChanged \/ next.savedDisputes # shown.savedDisputes
        THEN SyncSavedDisputes(one) ELSE one

\* the row after its first render and the effects of the mount
Mount(expand, saved) ==
    SyncSavedDisputes(SyncExpandAll(
        [expandAll |-> expand, savedDisputes |-> saved,
         selectedReason |-> "", selectedInstruction |-> "",
         customReason |-> "", customInstruction |-> "",
         showCustomReasonField |-> FALSE, showCustomInstructionField |-> FALSE,
         isDisputeSaved |-> saved.present, isCollapsed |-> TRUE,
         isChoreographyActive |-> FALSE,
         timers |-> << >>, frames |-> 0, pauses |-> 0, collapses |-> 0]))

\* executeSaveLogic up to its first await, on the finalReason and finalInstruction
\* of the render it closes over
executeSaveLogic(rw, finalReason, finalInstruction) ==
    IF finalReason = "" \/ finalInstruction = ""
    THEN rw
    ELSE [rw EXCEPT !.savedDisputes = onDispute(finalReason, finalInstruction),
                    !.isChoreographyActive = TRUE,
                    !.isCollapsed = FALSE,
                    !.isDisputeSaved = TRUE,
                    !.frames = @ + 1]

RowInit ==
    /\ row \in {Mount(expand, saved) : expand \in {"undefined", "true", "false"},
                                        saved \in ParentEntries}
    /\ NoRequest
    /\ subject = NoSubject
    /\ verdict = NoVerdict
    /\ personalInfo = Unmounted
    /\ accountsSection = Unmounted

\* a handler of the row has run and the row has rendered
RowStep(next) ==
    /\ row' = Render(row, next)
    /\ UNCHANGED << requestVars, subject, verdict, personalInfo, accountsSection >>

\* the parent renders the row with other props
SetProps(expand, saved) ==
    /\ expand # row.expandAll \/ saved # row.savedDisputes
    /\ RowStep([row EXCEPT !.expandAll = expand, !.savedDisputes = saved])

\* the form is shown unless the saved row is collapsed
FormShown == ~(row.isDisputeSaved /\ row.isCollapsed)

\* onClick of the collapsed saved card
ExpandCard ==
    /\ ~FormShown
    /\ RowStep([row EXCEPT !.isCollapsed = FALSE])

\* onChange of the reason select
SelectReason(value) ==
    /\ FormShown
    /\ LET unsaved == [row EXCEPT !.isDisputeSaved = FALSE]
       IN  RowStep(IF value = "__custom__"
                   THEN [unsaved EXCEPT !.showCustomReasonField = TRUE,
                                        !.selectedReason = "", !.customReason = ""]
                   ELSE IF value # ""
                   THEN [unsaved EXCEPT !.customReason = value, !.selectedReason = value,
                                        !.showCustomReasonField = FALSE]
                   ELSE unsaved)

\* onChange of the instruction select
SelectInstruction(value) ==
    /\ FormShown
    /\ LET unsaved == [row EXCEPT !.isDisputeSaved = FALSE]
       IN  RowStep(IF value = "__custom__"
                   THEN [unsaved EXCEPT !.showCustomInstructionField = TRUE,
                                        !.selectedInstruction = "", !.customInstruction = ""]
                   ELSE IF value # ""
                   THEN [unsaved EXCEPT !.customInstruction = value,
                                        !.selectedInstruction = value,
                                        !.showCustomInstructionField = FALSE]
                   ELSE unsaved)

\* handleSaveDispute: the click on the save button, blue or green
handleSaveDispute ==
    /\ FormShown
    /\ row.isDisputeSaved \/ (HasReason(row) # "" /\ HasInstruction(row) # "")
    /\ IF row.isDisputeSaved
       THEN /\ Len(row.timers) < MaxTimers
            /\ RowStep([row EXCEPT !.isDisputeSaved = FALSE,
                                   !.timers = Append(@, [reason |-> HasReason(row),
                                                         instruction |-> HasInstruction(row)])])
       ELSE /\ row.frames + row.pauses + row.collapses < MaxRuns
            /\ RowStep(executeSaveLogic(row, HasReason(row), HasInstruction(row)))

\* the 50 ms timer of the re-save fires: executeSaveLogic of the render of the click
ResaveTimer ==
    /\ row.timers # << >>
    /\ row.frames + row.pauses + row.collapses < MaxRuns
    /\ RowStep(executeSaveLogic([row EXCEPT !.timers = Tail(@)],
                                Head(row.timers).reason, Head(row.timers).instruction))

\* the two animation frames have passed
FramesPainted ==
    /\ row.frames > 0
    /\ RowStep([row EXCEPT !.frames = @ - 1, !.pauses = @ + 1])

\* the 300 ms pause is over: the row collapses
PauseOver ==
    /\ row.pauses > 0
    /\ RowStep([row EXCEPT !.pauses = @ - 1, !.collapses = @ + 1, !.isCollapsed = TRUE])

\* the collapse animation is over: the flag is cleared
CollapseOver ==
    /\ row.collapses > 0
    /\ RowStep([row EXCEPT !.collapses = @ - 1, !.isChoreographyActive = FALSE])

RowNext ==
    \/ \E expand \in {"undefined", "true", "false"}, saved \in ParentEntries :
          SetProps(expand, saved)
    \/ ExpandCard
    \/ \E value \in {"", "__custom__", ListedReason} : SelectReason(value)
    \/ \E value \in {"", "__custom__", ListedInstruction} : SelectInstruction(value)
    \/ handleSaveDispute
    \/ ResaveTimer
    \/ FramesPainted
    \/ PauseOver
    \/ CollapseOver

RowSpec == RowInit /\ [][RowNext]_vars

\* the frames are painted and the timers fire
RowLive ==
    /\ RowSpec
    /\ WF_vars(ResaveTimer)
    /\ WF_vars(FramesPainted)
    /\ WF_vars(PauseOver)
    /\ WF_vars(CollapseOver)

C27_SavedAgreesWithParent ==
    (~row.isChoreographyActive /\ row.timers = << >>) =>
        row.isDisputeSaved = row.savedDisputes.present

(***************************************************************************)
(* PersonalInfo: the Personal Information section with one selectable      *)
(* item, its dispute form and its save choreography.  A handler and the    *)
(* render that follows it, with the effect on [isDisputeSaved], are one    *)
(* step.                                                                   *)
(***************************************************************************)
\* the reason and the instruction the selects of the section offer
PersonalReason == "This personal information is incorrect"

PersonalInstruction == "Remove this incorrect information from my credit report immediately"

\* the useEffect on [isDisputeSaved]: it runs when isDisputeSaved differs from
\* the render before (`changed`), and on the mount
ChoreographyEffect(p, changed) ==
    IF changed /\ p.isDisputeSaved /\ ~p.hasChoreographyRun
    THEN [p EXCEPT !.isPersonalInfoChoreographyActive = TRUE,
                   !.hasChoreographyRun = TRUE,
                   !.collapsing = @ + 1]
    ELSE p

\* the section after its first render and the effect of the mount, given
\* whether initialDisputeData is passed
MountInfo(hasInitialDisputeData) ==
    ChoreographyEffect(
        [selected |-> hasInitialDisputeData,
         selectedReason |-> IF hasInitialDisputeData THEN PersonalReason ELSE "",
         selectedInstruction |-> IF hasInitialDisputeData THEN PersonalInstruction ELSE "",
         showCustomReason |-> FALSE, showCustomInstruction |-> FALSE,
         customReason |-> "", customInstruction |-> "",
         isDisputeSaved |-> hasInitialDisputeData,
         isCollapsed |-> hasInitialDisputeData,
         isExpanded |-> FALSE,
         isPersonalInfoChoreographyActive |-> FALSE,
         hasChoreographyRun |-> FALSE,
         timers |-> << >>, collapsing |-> 0, scrolling |-> 0, clearing |-> 0,
         lastSaved |-> NoDispute], TRUE)

InfoInit ==
    /\ personalInfo \in {MountInfo(given) : given \in BOOLEAN}
    /\ NoRequest
    /\ subject = NoSubject
    /\ verdict = NoVerdict
    /\ row = Unmounted
    /\ accountsSection = Unmounted

\* the timer chains of the choreography that have not ended
Chains(p) == p.collapsing + p.scrolling + p.clearing

\* a handler of the section has run and the section has rendered
InfoStep(next) ==
    /\ personalInfo' = ChoreographyEffect(next, next.isDisputeSaved # personalInfo.isDisputeSaved)
    /\ Chains(personalInfo') <= MaxRuns
    /\ UNCHANGED << requestVars, subject, verdict, row, accountsSection >>

\* the SavedCollapsedCard is rendered in place of the section
CardShown == personalInfo.isCollapsed /\ personalInfo.isDisputeSaved

\* the CardContent is rendered
ContentShown == ~CardShown /\ personalInfo.isExpanded

\* the dispute form is rendered
FormRendered == ContentShown /\ personalInfo.selected

\* finalReason and finalInstruction of a render
FinalReason(p) == IF p.showCustomReason THEN Trim(p.customReason) ELSE Trim(p.selectedReason)

FinalInstruction(p) ==
    IF p.showCustomInstruction THEN Trim(p.customInstruction) ELSE Trim(p.selectedInstruction)

\* onExpand of the SavedCollapsedCard
onExpand ==
    /\ CardShown
    /\ InfoStep(IF personalInfo.isPersonalInfoChoreographyActive
                THEN personalInfo
                ELSE [personalInfo EXCEPT !.isCollapsed = FALSE, !.isExpanded = TRUE])

\* onClick of the CardHeader
HeaderClick ==
    /\ ~CardShown
    /\ InfoStep(IF ~personalInfo.isPersonalInfoChoreographyActive
                THEN [personalInfo EXCEPT !.isExpanded = ~@]
                ELSE personalInfo)

\* onClick of the Show More / Show Less button of the content
ShowMoreToggle ==
    /\ ContentShown
    /\ InfoStep([personalInfo EXCEPT !.isExpanded = ~personalInfo.isExpanded])

\* toggleSelection of an item that is not an address
toggleSelection ==
    /\ ContentShown
    /\ InfoStep([personalInfo EXCEPT !.selected = ~@,
                                     !.isDisputeSaved = FALSE,
                                     !.hasChoreographyRun = FALSE,
                                     !.isCollapsed = FALSE])

\* onValueChange of the reason Select
SelectPersonalReason(value) ==
    /\ FormRendered
    /\ ~personalInfo.showCustomReason
    /\ InfoStep(IF value = "__custom__"
                THEN [personalInfo EXCEPT !.showCustomReason = TRUE, !.selectedReason = ""]
                ELSE [personalInfo EXCEPT !.showCustomReason = FALSE, !.selectedReason = value])

\* onValueChange of the instruction Select
SelectPersonalInstruction(value) ==
    /\ FormRendered
    /\ ~personalInfo.showCustomInstruction
    /\ InfoStep(IF value = "__custom__"
                THEN [personalInfo EXCEPT !.showCustomInstruction = TRUE,
                                          !.selectedInstruction = ""]
                ELSE [personalInfo EXCEPT !.showCustomInstruction = FALSE,
                                          !.selectedInstruction = value])

\* executePersonalInfoSaveLogic, on the finalReason and finalInstruction of the
\* render it closes over
executePersonalInfoSaveLogic(p, finalReason, finalInstruction) ==
    [p EXCEPT !.hasChoreographyRun = FALSE,
              !.isDisputeSaved = TRUE,
              !.lastSaved = [present |-> TRUE, reason |-> finalReason,
                             instruction |-> finalInstruction]]

\* proceedWithSave
proceedWithSave(p) ==
    LET finalReason == IF p.selected /\ FinalReason(p) = ""
                       THEN PersonalReason ELSE FinalReason(p)
        finalInstruction ==
            IF p.selected /\ (\/ FinalInstruction(p) = ""
                              \/ Includes(FinalInstruction(p), "Please remove this incorrect"))
            THEN "Please remove this incorrect information from my credit report immediately"
            ELSE FinalInstruction(p)
    IN  IF finalReason = "" \/ finalInstruction = ""
        THEN p
        ELSE executePersonalInfoSaveLogic(
                 [p EXCEPT !.customReason = IF p.showCustomReason THEN finalReason ELSE @,
                           !.selectedReason = IF p.showCustomReason THEN @ ELSE finalReason,
                           !.customInstruction =
                               IF p.showCustomInstruction THEN finalInstruction ELSE @,
                           !.selectedInstruction =
                               IF p.showCustomInstruction THEN @ ELSE finalInstruction],
                 FinalReason(p), FinalInstruction(p))

\* onClick of the Save button, which is disabled while the unsaved form is incomplete
SaveClick ==
    /\ FormRendered
    /\ \/ personalInfo.isDisputeSaved
       \/ (FinalReason(personalInfo) # "" /\ FinalInstruction(personalInfo) # "")
    /\ IF personalInfo.isDisputeSaved
       THEN /\ Len(personalInfo.timers) < MaxTimers
            /\ InfoStep([personalInfo EXCEPT
                            !.isDisputeSaved = FALSE,
                            !.timers = Append(@, [reason |-> FinalReason(personalInfo),
                                                  instruction |-> FinalInstruction(personalInfo)])])
       ELSE InfoStep(proceedWithSave(personalInfo))

\* the 50 ms timer of the re-save fires: executePersonalInfoSaveLogic of the
\* render of the click
ResaveInfoTimer ==
    /\ personalInfo.timers # << >>
    /\ InfoStep(executePersonalInfoSaveLogic([personalInfo EXCEPT !.timers = Tail(@)],
                                             Head(personalInfo.timers).reason,
                                             Head(personalInfo.timers).instruction))

\* step 2 of the timer chain, after 500 ms: the section collapses
CollapseStep ==
    /\ personalInfo.collapsing > 0
    /\ InfoStep([personalInfo EXCEPT !.collapsing = @ - 1, !.scrolling = @ + 1,
                                     !.isExpanded = FALSE, !.isCollapsed = TRUE])

\* step 3, after 500 ms more: the page scrolls to the next section
ScrollStep ==
    /\ personalInfo.scrolling > 0
    /\ InfoStep([personalInfo EXCEPT !.scrolling = @ - 1, !.clearing = @ + 1])

\* step 4, after 100 ms more: the flag is cleared
ClearStep ==
    /\ personalInfo.clearing > 0
    /\ InfoStep([personalInfo EXCEPT !.clearing = @ - 1,
                                     !.isPersonalInfoChoreographyActive = FALSE])

InfoNext ==
    \/ onExpand
    \/ HeaderClick
    \/ ShowMoreToggle
    \/ toggleSelection
    \/ \E value \in {"__custom__", PersonalReason} : SelectPersonalReason(value)
    \/ \E value \in {"__custom__", PersonalInstruction} : SelectPersonalInstruction(value)
    \/ SaveClick
    \/ ResaveInfoTimer
    \/ CollapseStep
    \/ ScrollStep
    \/ ClearStep

InfoSpec == InfoInit /\ [][InfoNext]_vars

\* the timers of the section fire
InfoLive ==
    /\ InfoSpec
    /\ WF_vars(ResaveInfoTimer)
    /\ WF_vars(CollapseStep)
    /\ WF_vars(ScrollStep)
    /\ WF_vars(ClearStep)

(***************************************************************************)
(* Properties of the Personal Information section                          *)
(***************************************************************************)
\* C28: onDisputeSaved is never called with an empty reason or an empty
\* instruction
C28_NeverSavedIncomplete ==
    personalInfo.lastSaved.present =>
        (personalInfo.lastSaved.reason # "" /\ personalInfo.lastSaved.instruction # "")

\* a click on one of the three manual toggles of the section
ManualToggle == onExpand \/ HeaderClick \/ ShowMoreToggle

\* a call of executePersonalInfoSaveLogic
SaveMade == ResaveInfoTimer \/ (SaveClick /\ ~personalInfo.isDisputeSaved)

\* C29: while isPersonalInfoChoreographyActive is set no manual toggle changes
\* isExpanded or isCollapsed; every save starts one timer chain; the flag, once
\* set, is cleared again, and the section is then saved and collapsed
C29_TogglesBlockedDuringChoreography ==
    /\ [][(personalInfo.isPersonalInfoChoreographyActive /\ ManualToggle)
          => (/\ personalInfo'.isExpanded = personalInfo.isExpanded
              /\ personalInfo'.isCollapsed = personalInfo.isCollapsed)]_vars
    /\ [][SaveMade => Chains(personalInfo') = Chains(personalInfo) + 1]_vars
    /\ [][(/\ personalInfo.isPersonalInfoChoreographyActive
           /\ ~personalInfo'.isPersonalInfoChoreographyActive)
          => (personalInfo'.isDisputeSaved /\ personalInfo'.isCollapsed)]_vars
    /\ [](personalInfo.isPersonalInfoChoreographyActive
            => <>(~personalInfo.isPersonalInfoChoreographyActive))

(***************************************************************************)
(* The accounts section of the page: handleAiScan and the request it       *)
(* sends.  Each await of handleAiScan is a step; the answer is one the     *)
(* route can give, or none (the request fails), or one that is not JSON.   *)
(***************************************************************************)
\* {} : a map without keys
NoEntries == [id \in {} |-> << >>]

\* the bodies of the answers with status 200: payloads of the static rules, and
\* an object without the fields the page reads
ScanResults ==
    {generateStaticViolations(b) :
        b \in {[CREDIT_LIABILITY |-> << DerogLiability >>, PUBLIC_RECORD |-> << >>,
                INQUIRY |-> << OldInquiry >>],
               [CREDIT_LIABILITY |-> << >>, PUBLIC_RECORD |-> << PlainRecord >>,
                INQUIRY |-> << >>]}}
      \cup {[success |-> TRUE]}

\* the statuses of the route's answers
ScanStatuses ==
    {200} \cup {RouteError(m).status :
                   m \in {InputTooLargeMessage(100001), "insufficient_quota", "failed"}}

\* result.field || fallback
FieldOr(result, field, fallback) ==
    IF field \in DOMAIN result THEN result[field] ELSE fallback

ScanInit ==
    /\ accountsSection = [isAiScanning |-> FALSE,
                          aiViolations |-> NoEntries,
                          aiSuggestions |-> NoEntries,
                          aiScanCompleted |-> FALSE,
                          aiScanDismissed |-> FALSE,
                          showAiSummary |-> FALSE,
                          scanProgress |-> 0,
                          scanMessage |-> "",
                          aiSummaryData |-> [totalViolations |-> 0, affectedAccounts |-> 0],
                          fetching |-> 0, parsing |-> 0]
    /\ NoRequest
    /\ subject = NoSubject
    /\ verdict = NoVerdict
    /\ row = Unmounted
    /\ personalInfo = Unmounted

\* a handler of the section has run
ScanStep(next) ==
    /\ accountsSection' = next
    /\ UNCHANGED << requestVars, subject, verdict, row, personalInfo >>

\* handleScanError without its setIsAiScanning(false)
handleScanErrorStillScanning(a) ==
    [a EXCEPT !.aiViolations = NoEntries,
              !.aiSummaryData = [totalViolations |-> 0, affectedAccounts |-> 0],
              !.showAiSummary = TRUE,
              !.scanProgress = 0,
              !.scanMessage = "Analysis completed using compliance database"]

handleScanError(a) ==
    [a EXCEPT !.aiViolations = NoEntries,
              !.aiSummaryData = [totalViolations |-> 0, affectedAccounts |-> 0],
              !.showAiSummary = TRUE,
              !.isAiScanning = FALSE,
              !.scanProgress = 0,
              !.scanMessage = "Analysis completed using compliance database"]

\* handleAiScan up to its await of fetch
handleAiScan ==
    /\ accountsSection.fetching + accountsSection.parsing < MaxRuns
    /\ ScanStep([accountsSection EXCEPT !.isAiScanning = TRUE,
                                        !.scanProgress = 0,
                                        !.scanMessage = "Initializing AI analysis...",
                                        !.fetching = @ + 1])

\* fetch resolves with an answer of the route: response.ok or not
FetchResolves(code) ==
    /\ accountsSection.fetching > 0
    /\ ScanStep(IF code = 200
                THEN [accountsSection EXCEPT !.fetching = @ - 1, !.parsing = @ + 1]
                ELSE handleScanError([accountsSection EXCEPT !.fetching = @ - 1]))

\* fetch rejects: the catch block
FetchRejects ==
    /\ accountsSection.fetching > 0
    /\ ScanStep(handleScanError([accountsSection EXCEPT !.fetching = @ - 1]))

\* response.json() resolves with the payload
JsonResolves(result) ==
    /\ accountsSection.parsing > 0
    /\ ScanStep([accountsSection EXCEPT
                    !.parsing = @ - 1,
                    !.aiViolations = FieldOr(result, "violations", NoEntries),
                    !.aiSuggestions = FieldOr(result, "suggestions", NoEntries),
                    !.aiSummaryData =
                        [totalViolations |-> FieldOr(result, "totalViolations", 0),
                         affectedAccounts |-> FieldOr(result, "affectedAccounts", 0)],
                    !.aiScanCompleted = TRUE,
                    !.showAiSummary = TRUE,
                    !.isAiScanning = FALSE,
                    !.scanProgress = 100,
                    !.scanMessage = "Analysis complete!"])

\* response.json() rejects, the body not being JSON: the catch block
JsonRejects ==
    /\ accountsSection.parsing > 0
    /\ ScanStep(handleScanError([accountsSection EXCEPT !.parsing = @ - 1]))

\* onDismissAiSummary of the AiScanSection
onDismissAiSummary ==
    /\ accountsSection.showAiSummary
    /\ ScanStep([accountsSection EXCEPT !.showAiSummary = FALSE, !.aiScanDismissed = TRUE])

\* the request is answered or fails
FetchSettles == FetchRejects \/ \E code \in ScanStatuses : FetchResolves(code)

\* the body is read or turns out not to be JSON
JsonSettles == JsonRejects \/ \E result \in ScanResults : JsonResolves(result)

ScanNext ==
    \/ handleAiScan
    \/ FetchSettles
    \/ JsonSettles
    \/ onDismissAiSummary

ScanSpec == ScanInit /\ [][ScanNext]_vars

\* every request and every read of a body ends
ScanLive ==
    /\ ScanSpec
    /\ WF_vars(FetchSettles)
    /\ WF_vars(JsonSettles)

(***************************************************************************)
(* Properties of the scan of the page                                      *)
(***************************************************************************)
\* a run of handleAiScan ends in handleScanError
RunFails ==
    \/ FetchRejects
    \/ JsonRejects
    \/ \E code \in ScanStatuses \ {200} : FetchResolves(code)

\* a run of handleAiScan ends
RunEnds == RunFails \/ \E result \in ScanResults : JsonResolves(result)

\* C30: a run of handleAiScan that ends, with a payload, with an answer that is
\* not OK or with an exception, leaves isAiScanning false and the summary shown;
\* after a run that failed the violation map is empty and the counts are 0; and
\* a scan that is under way comes to such an end
C30_ScanAlwaysEnds ==
    /\ [][RunEnds => (/\ ~accountsSection'.isAiScanning
                      /\ accountsSection'.showAiSummary)]_vars
    /\ [][RunFails => (/\ accountsSection'.aiViolations = NoEntries
                       /\ accountsSection'.aiSummaryData =
                              [totalViolations |-> 0, affectedAccounts |-> 0])]_vars
    /\ [](accountsSection.isAiScanning
            => <>(~accountsSection.isAiScanning /\ accountsSection.showAiSummary))

\* a run has failed after a run that had found violations: the map is empty again
C30_FailedAfterFindings ==
    /\ accountsSection.scanMessage = "Analysis completed using compliance database"
    /\ accountsSection.aiScanCompleted
    /\ accountsSection.aiSuggestions # NoEntries
    /\ accountsSection.aiViolations = NoEntries
    /\ ~accountsSection.isAiScanning
    /\ accountsSection.showAiSummary
    /\ accountsSection.fetching + accountsSection.parsing = 0


====
